---- MODULE Spec2Model ----
(***************************************************************************)
(* Animated image optimization pipeline of the File Tools server:          *)
(* POST /api/convert and optimizeAnimatedGif (src/server/routes.ts).       *)
(*                                                                         *)
(* One conversion request is in flight at a time.  The external codecs     *)
(* (gifsicle, ImageMagick convert) are black boxes: each call either       *)
(* throws or writes a file whose byte size is any member of Sizes.         *)
(* A file is a record  [w, h, frames, size, ok, gen]:  its real logical    *)
(* screen, frame count and byte size, whether gifsicle can parse it, and   *)
(* gen, the number of re-encodings that lie between it and an uploaded     *)
(* original (two files hold the same bytes iff the records are equal).     *)
(*                                                                         *)
(* The other parts of the server are specifications of their own over the  *)
(* same variables: the browser dialog (ClientSpec), concurrent requests    *)
(* and their paths (PathSpec), login attempts and blocks (LoginSpec,       *)
(* SignInSpec), the /api gate and share sessions (AccessSpec,              *)
(* SessionSpec), the share's quota (QuotaSpec), temporary file sharing     *)
(* (FileSpec) and the temp file cleanup (TempSpec).                        *)
(***************************************************************************)
EXTENDS Integers, Sequences, FiniteSets, TLC

\* ------------------------------------------------------------------ bounds
MaxFrames == 4      \* largest frame count of an uploaded asset
MaxAttempts == 4    \* login attempts recorded
MaxHours  == 49     \* hours the clock runs
MaxSessions == 1    \* share sessions opened
MaxSent   == 3      \* conversion requests one browser session sends
MaxRuns   == 2      \* requests served one after the other
MaxUploads == 2     \* files uploaded to the share, or to file sharing
MaxTempFiles == 2   \* files written to the upload and converted directories

\* ------------------------------------------------------- program constants
MIN_DIMENSION  == 180
MAX_SIZE_BYTES == 2 * 1024 * 1024
MB             == 1024 * 1024
MAX_LOGIN_ATTEMPTS   == 3
BLOCK_DURATION_HOURS == 48
HOME_AUTH_HOURS      == 4
SHARE_QUOTA_BYTES    == 1024 * 1024 * 1024

\* ------------------------------------------------------------ JS numbers
\* A JavaScript number that may be NaN.  Every comparison with NaN is false.
NaN    == [nan |-> TRUE, v |-> 0]
Num(x) == [nan |-> FALSE, v |-> x]

\* size <= maxSizeBytes and size > maxSizeBytes, as JavaScript evaluates them
SizeLeq(size, maxSizeBytes) == ~maxSizeBytes.nan /\ size <= maxSizeBytes.v
SizeGt(size, maxSizeBytes)  == ~maxSizeBytes.nan /\ size > maxSizeBytes.v

\* parseInt on the form values the model sends
ParseInt(s) ==
  CASE s = "150"  -> Num(150)
    [] s = "180"  -> Num(180)
    [] s = "250"  -> Num(250)
    [] s = "300"  -> Num(300)
    [] s = "0"    -> Num(0)
    [] OTHER      -> NaN

\* parseFloat on the form values the model sends.  The value is a number of
\* megabytes; it is held exactly, as that number times 1024 * 1024.
ParseFloat(s) ==
  CASE s = "2"       -> Num(2 * MB)
    [] s = "0.125"   -> Num(131072)
    [] s = "51"      -> Num(51 * MB)
    [] OTHER         -> NaN

\* a || b on strings and on numbers (the empty string, 0 and NaN are falsy)
StrOr(s, d) == IF s = "" THEN d ELSE s
NumOr(n, d) == IF n.nan \/ n.v = 0 THEN d ELSE n.v

Max(a, b) == IF a >= b THEN a ELSE b
Min(a, b) == IF a <= b THEN a ELSE b

\* ------------------------------------------------------------------ inputs
Sizes    == {150000, 3000000}
Widths   == {100, 200, 400}
Heights  == {100, 400}
FrameCounts == {2, 3, MaxFrames}

\* what a browser or any other client may put in the multipart body
MimeTypes       == {"image/gif", "image/webp"}
AllowValues     == {"true", "false"}
MaxFileSizeValues == {"", "abc", "0.125", "51"}
MinWidthValues  == {"", "300"}
MinHeightValues == {""}
MaxWidthValues  == {"", "150", "250"}
MaxHeightValues == {"", "150"}

NoFile == [w |-> 0, h |-> 0, frames |-> 0, size |-> 0, ok |-> FALSE, gen |-> 0]

\* uploaded originals: well-formed animations of every canvas (3 frames) and
\* of every frame count (200 x 400), and a file gifsicle cannot read
Assets ==
  [w : Widths, h : Heights, frames : {3}, size : Sizes, ok : {TRUE}, gen : {0}]
  \cup [w : {200}, h : {400}, frames : FrameCounts, size : Sizes, ok : {TRUE}, gen : {0}]
  \cup [w : {200}, h : {100}, frames : {3}, size : Sizes, ok : {FALSE}, gen : {0}]

\* the bodies sent: every combination of the custom settings with a GIF
\* upload; a non-GIF upload with the default dimensions; the preset and an
\* unknown mode without custom settings (they are not read)
Bodies ==
  {b \in [mode : {"yalla_ludo", "custom", "other"}, mime : MimeTypes,
          allowFrameReduction : AllowValues, maxFileSize : MaxFileSizeValues,
          minWidth : MinWidthValues, minHeight : MinHeightValues,
          maxWidth : MaxWidthValues, maxHeight : MaxHeightValues] :
     /\ b.mode # "custom" => b.maxFileSize = ""
     /\ (b.mode # "custom" \/ b.mime # "image/gif") =>
          (b.minWidth = "" /\ b.minHeight = "" /\ b.maxWidth = "" /\ b.maxHeight = "")}

\* the files of one request: req.file.path, + ".converted.gif",
\* + ".resize.gif", + ".dim.gif", CONVERTED_DIR/<outputId>.gif, + ".temp.gif"
Kinds == {"upload", "converted", "resize", "dim", "output", "temp"}
Runs  == 1..MaxRuns

VARIABLES
  run,            \* number of the request being served
  pc,             \* position of the request handler
  body,           \* req.body and req.file.mimetype
  asset,          \* the uploaded original of this request
  fs,             \* fs[r][k]: the file k of request r, or NoFile
  inputPath,      \* POST /api/convert workingPath = optimizeAnimatedGif inputPath
  tempGifPath,    \* TRUE iff tempGifPath is set (non-GIF upload)
  originalInfo,   \* getGifInfo of the handler
  options,        \* optimizeOptions
  info,           \* optimizeAnimatedGif: info
  workingPath,    \* optimizeAnimatedGif: workingPath
  tempFiles,      \* optimizeAnimatedGif: tempFiles
  resultSize,     \* optimizeAnimatedGif: resultSize
  level,          \* index into the palette ladder of the next recolor
  currentFrames,  \* optimizeAnimatedGif: currentFrames
  result,         \* what optimizeAnimatedGif returned
  response,       \* what the handler sent
  conversionResults,  \* storage: ids (run numbers) with a saved result
  conversionVersion,  \* storage: version counter
  calls,          \* history: the codec calls of this request, in order
  tried,          \* history: ladder levels recolored, and whether each fit the budget
  smallest,       \* history: the smallest encoding written to the output so far (0: none)
  origin,         \* history: how this request came about (first, reconvert, confirm)
  client,         \* ImageConverter (browser): the component's state
  now,            \* the clock, in hours
  session,        \* req.session of the browser: homeAuthenticated, homeAuthExpires
  loginAttempts,  \* storage: the recorded login attempts, oldest first
  blockedIps,     \* storage: the blocked IPs
  attemptsMade,   \* history: the attempts ever saved, and the failed ones of each IP
  reply,          \* the last response to a login or to a Temp Drive file request
  tdSessions,     \* storage: the Temp Drive sessions
  drive,          \* storage: the share (exists, active, expiresAt; 0 is null), globalSettings.sharingEnabled
  admin,          \* storage: the Temp Drive admin record (none, pending, complete)
  inflight,       \* the conversion requests in flight: position, ids, paths
  disk,           \* UPLOAD_DIR and CONVERTED_DIR: the paths held, with the request that wrote them
  issued,         \* the number of UUIDs randomUUID has returned
  foreign,        \* history: a request has touched a path another request holds
  usedBytes,      \* storage: usedBytes of the share
  shareFiles,     \* storage: the share files recorded, [id, fileSize]
  jobs,           \* the Temp Drive upload and delete handlers in flight
  uploadedFiles,  \* storage: the records of the shared files
  sharedDir,      \* SHARED_DIR: the paths of the files on disk, <<id, ext>>
  clock,          \* Date.now() of the file sharing routes, in hundredths of an hour
  uploads,        \* history: the shared files saved and not taken back, with what was asked for
  tempDir,        \* UPLOAD_DIR and CONVERTED_DIR: the files held, [dir, id, mtime]
  minute,         \* Date.now() of the temp cleanup, in minutes
  swept           \* history: the ids of the files the temp cleanup has unlinked

convVars == <<run, pc, body, asset, fs, inputPath, tempGifPath, originalInfo,
              options, info, workingPath, tempFiles, resultSize, level,
              currentFrames, result, response, conversionResults,
              conversionVersion, calls, tried, smallest, origin>>

\* the state outside the conversion handler
authVars == <<now, session, loginAttempts, blockedIps, attemptsMade, reply,
              tdSessions, drive, admin>>

pathVars == <<inflight, disk, issued, foreign>>

\* Temp Drive share files and their quota
shareVars == <<usedBytes, shareFiles, jobs>>

\* temporary file sharing
fileVars == <<uploadedFiles, sharedDir, clock, uploads>>

tempVars == <<tempDir, minute, swept>>

aux == <<client, authVars, pathVars, shareVars, fileVars, tempVars>>

vars == <<convVars, aux>>

hLocals == <<inputPath, tempGifPath, originalInfo, options>>
oLocals == <<info, workingPath, tempFiles, resultSize, level, currentFrames>>
store   == <<conversionResults, conversionVersion>>

NoInfo    == [width |-> 0, height |-> 0, frames |-> 0]
NoOptions == [maxSizeBytes |-> Num(0), minWidth |-> 0, minHeight |-> 0,
              maxWidth |-> 0, maxHeight |-> 0, allowFrameReduction |-> FALSE]
NoResult   == [kind |-> "none"]
NoResponse == [status |-> 0, kind |-> "none"]

File(k)   == fs[run][k]
Exists(k) == fs[run][k] # NoFile
Write(f, k, a) == [f EXCEPT ![run][k] = a]
Unlink(f, ks)  == [f EXCEPT ![run] = [k \in Kinds |-> IF k \in ks THEN NoFile ELSE f[run][k]]]

\* getGifInfo: gifsicle --info, parsed with two regular expressions; when the
\* output does not match (or the command fails) it reports 0 x 0, 1 frame.
getGifInfo(a) ==
  IF a.ok /\ a # NoFile
    THEN [width |-> a.w, height |-> a.h, frames |-> a.frames]
    ELSE [width |-> 0, height |-> 0, frames |-> 1]

\* the server before its first conversion request
ConvInit(bodies, assets) ==
  /\ run = 1
  /\ pc = "idle"
  /\ body \in bodies
  /\ asset \in assets
  /\ fs = [r \in Runs |-> [k \in Kinds |-> NoFile]]
  /\ inputPath = "upload"
  /\ tempGifPath = FALSE
  /\ originalInfo = NoInfo
  /\ options = NoOptions
  /\ info = NoInfo
  /\ workingPath = "upload"
  /\ tempFiles = {}
  /\ resultSize = 0
  /\ level = 1
  /\ currentFrames = 0
  /\ result = NoResult
  /\ response = NoResponse
  /\ conversionResults = {}
  /\ conversionVersion = 0
  /\ calls = <<>>
  /\ tried = <<>>
  /\ smallest = 0
  /\ origin = "first"

\* useState initial values of ImageConverter; sent and approvals are history
ClientStart == [file |-> FALSE, result |-> "null", dialog |-> FALSE,
                mutation |-> "idle", sent |-> <<>>, approvals |-> 0,
                lastEvent |-> "none"]

\* the conversion requests served at the same time
Requests == {1, 2}

\* file.originalname after the replace of multer's filename callback, as
\* the pieces paths are put together from
Names == {<<"a.gif">>, <<"a.gif", ".resize.gif">>}

Waiting == [pc |-> "waiting", upload |-> <<>>, input |-> <<>>, working |-> <<>>,
            output |-> <<>>, tempFiles |-> {}]

\* req.ip of the clients that log in
IPs == {"10.0.0.1", "10.0.0.2"}

NoSession == [homeAuthenticated |-> FALSE, homeAuthExpires |-> 0]
NoReply   == [endpoint |-> "none", status |-> 0]

\* the Temp Drive handlers that run at the same time
Jobs == {1, 2}

Resting == [pc |-> "rest", used |-> 0, listed |-> {}, file |-> [id |-> 0, fileSize |-> 0],
            status |-> 0]

AuxInit ==
  /\ client = ClientStart
  /\ now = 0
  /\ session = NoSession
  /\ loginAttempts = <<>>
  /\ blockedIps = {}
  /\ attemptsMade = [total |-> 0, failed |-> [ip \in IPs |-> 0]]
  /\ reply = NoReply
  /\ tdSessions = {}
  /\ drive = [exists |-> TRUE, active |-> TRUE, expiresAt |-> 0, sharingEnabled |-> TRUE]
  /\ admin = "none"
  /\ inflight = [p \in Requests |-> Waiting]
  /\ disk = {}
  /\ issued = 0
  /\ foreign = FALSE
  /\ usedBytes = 0
  /\ shareFiles = {}
  /\ jobs = [j \in Jobs |-> Resting]
  /\ uploadedFiles = {}
  /\ sharedDir = {}
  /\ clock = 0
  /\ uploads = {}
  /\ tempDir = {}
  /\ minute = 0
  /\ swept = {}

Init == ConvInit(Bodies, Assets) /\ AuxInit

\* ---------------------------------------------------- POST /api/convert
\* multer stores the upload under a fresh UUID name and the handler starts
Upload ==
  /\ pc = "idle"
  /\ fs' = Write(fs, "upload", asset)
  /\ pc' = "mode"
  /\ UNCHANGED <<aux, run, origin, body, asset, hLocals, oLocals, result, response, store, calls, tried, smallest>>

\* mode !== "yalla_ludo" && mode !== "custom": unlink the upload, 400
RejectMode ==
  /\ pc = "mode"
  /\ body.mode # "yalla_ludo" /\ body.mode # "custom"
  /\ fs' = Unlink(fs, {"upload"})
  /\ response' = [status |-> 400, kind |-> "error"]
  /\ pc' = "done"
  /\ UNCHANGED <<aux, run, origin, body, asset, hLocals, oLocals, result, store, calls, tried, smallest>>

\* a GIF upload is used as it is
KeepGif ==
  /\ pc = "mode"
  /\ body.mode \in {"yalla_ludo", "custom"}
  /\ body.mime = "image/gif"
  /\ inputPath' = "upload"
  /\ tempGifPath' = FALSE
  /\ pc' = "probe"
  /\ UNCHANGED <<aux, run, origin, body, asset, fs, originalInfo, options, oLocals, result,
                 response, store, calls, tried, smallest>>

\* convertToGif succeeds: "convert <in> -coalesce <out>" keeps canvas and frames
ConvertToGifOk ==
  /\ pc = "mode"
  /\ body.mode \in {"yalla_ludo", "custom"}
  /\ body.mime # "image/gif"
  /\ \E s \in Sizes :
       fs' = Write(fs, "converted",
                   [w |-> File("upload").w, h |-> File("upload").h,
                    frames |-> File("upload").frames, size |-> s, ok |-> TRUE,
                    gen |-> File("upload").gen + 1])
  /\ calls' = Append(calls, "convertToGif")
  /\ inputPath' = "converted"
  /\ tempGifPath' = TRUE
  /\ pc' = "probe"
  /\ UNCHANGED <<aux, run, origin, body, asset, originalInfo, options, oLocals, result,
                 response, store, tried, smallest>>

\* convertToGif fails: unlink the upload, 422
ConvertToGifFail ==
  /\ pc = "mode"
  /\ body.mode \in {"yalla_ludo", "custom"}
  /\ body.mime # "image/gif"
  /\ calls' = Append(calls, "convertToGif")
  /\ fs' = Unlink(fs, {"upload"})
  /\ tempGifPath' = TRUE
  /\ response' = [status |-> 422, kind |-> "error"]
  /\ pc' = "done"
  /\ UNCHANGED <<aux, run, origin, body, asset, inputPath, originalInfo, options, oLocals,
                 result, store, tried, smallest>>

\* const originalInfo = await getGifInfo(workingPath)
ProbeOriginal ==
  /\ pc = "probe"
  /\ originalInfo' = getGifInfo(File(inputPath))
  /\ calls' = Append(calls, "probe")
  /\ pc' = "options"
  /\ UNCHANGED <<aux, run, origin, body, asset, fs, inputPath, tempGifPath, options, oLocals,
                 result, response, store, tried, smallest>>

\* variant: any non-empty value counts as approval
allowFrameReductionOf_Truthy(b) == b.allowFrameReduction # ""

\* req.body.allowFrameReduction === "true"
allowFrameReductionOf(b) == b.allowFrameReduction = "true"

\* the custom-mode parameters as the handler parses and clamps them
maxFileSizeOf(b) == ParseFloat(StrOr(b.maxFileSize, "2"))
minWidthOf(b)    == NumOr(ParseInt(StrOr(b.minWidth, "180")), MIN_DIMENSION)
minHeightOf(b)   == NumOr(ParseInt(StrOr(b.minHeight, "180")), MIN_DIMENSION)
maxWidthOf(b)    == NumOr(ParseInt(StrOr(b.maxWidth, "0")), 0)
maxHeightOf(b)   == NumOr(ParseInt(StrOr(b.maxHeight, "0")), 0)

\* maxFileSize <= 0 || maxFileSize > 50
InvalidFileSize(n) == ~n.nan /\ (n.v <= 0 \/ n.v > 50 * MB)

optimizeOptionsOf(b) ==
  IF b.mode = "yalla_ludo"
    THEN [maxSizeBytes |-> Num(MAX_SIZE_BYTES),
          minWidth |-> MIN_DIMENSION, minHeight |-> MIN_DIMENSION,
          maxWidth |-> 0, maxHeight |-> 0,
          allowFrameReduction |-> allowFrameReductionOf(b)]
    ELSE [maxSizeBytes |-> maxFileSizeOf(b),
          minWidth  |-> Max(1, Min(minWidthOf(b), 2000)),
          minHeight |-> Max(1, Min(minHeightOf(b), 2000)),
          maxWidth  |-> IF maxWidthOf(b) > 0 THEN Min(maxWidthOf(b), 4000) ELSE 0,
          maxHeight |-> IF maxHeightOf(b) > 0 THEN Min(maxHeightOf(b), 4000) ELSE 0,
          allowFrameReduction |-> allowFrameReductionOf(b)]

\* custom mode with an invalid size limit: unlink both files, 400
RejectFileSize ==
  /\ pc = "options"
  /\ body.mode = "custom"
  /\ InvalidFileSize(maxFileSizeOf(body))
  /\ fs' = Unlink(fs, {"upload"} \cup (IF tempGifPath THEN {"converted"} ELSE {}))
  /\ response' = [status |-> 400, kind |-> "error"]
  /\ pc' = "done"
  /\ UNCHANGED <<aux, run, origin, body, asset, hLocals, oLocals, result, store, calls, tried, smallest>>

\* the options are built and optimizeAnimatedGif is entered:
\* let info = await getGifInfo(inputPath); workingPath = inputPath; tempFiles = []
BuildOptions ==
  /\ pc = "options"
  /\ body.mode = "custom" => ~InvalidFileSize(maxFileSizeOf(body))
  /\ options' = optimizeOptionsOf(body)
  /\ info' = getGifInfo(File(inputPath))
  /\ calls' = Append(calls, "probe")
  /\ workingPath' = inputPath
  /\ tempFiles' = {}
  /\ pc' = "resize"
  /\ UNCHANGED <<aux, run, origin, body, asset, fs, inputPath, tempGifPath, originalInfo,
                 resultSize, level, currentFrames, result, response, store, tried, smallest>>

\* --------------------------------------------------- optimizeAnimatedGif
\* variant: the maxima are compared without testing that they are set
NeedsResize_Unguarded ==
  info.width > options.maxWidth \/ info.height > options.maxHeight

\* Step -1: (maxWidth && info.width > maxWidth) || (maxHeight && info.height > maxHeight)
NeedsResize ==
  \/ (options.maxWidth # 0 /\ info.width > options.maxWidth)
  \/ (options.maxHeight # 0 /\ info.height > options.maxHeight)

\* x * num / den rounded to the nearest integer, at least 1
ScaleRound(x, num, den) == Max(1, (2 * x * num + den) \div (2 * den))

\* convert -resize "WxH>", "Wx>" or "xH>": shrink only, aspect ratio kept,
\* the result fits the box that the given sides describe
ResizedDims(w, h, maxW, maxH) ==
  IF maxW # 0 /\ maxH # 0
    THEN IF w <= maxW /\ h <= maxH THEN [w |-> w, h |-> h]
         ELSE IF maxW * h <= maxH * w
                THEN [w |-> maxW, h |-> ScaleRound(h, maxW, w)]
                ELSE [w |-> ScaleRound(w, maxH, h), h |-> maxH]
    ELSE IF maxW # 0
      THEN IF w <= maxW THEN [w |-> w, h |-> h]
           ELSE [w |-> maxW, h |-> ScaleRound(h, maxW, w)]
      ELSE IF h <= maxH THEN [w |-> w, h |-> h]
           ELSE [w |-> ScaleRound(w, maxH, h), h |-> maxH]

SkipResize ==
  /\ pc = "resize"
  /\ ~NeedsResize
  /\ pc' = "minDim"
  /\ UNCHANGED <<aux, run, origin, body, asset, fs, hLocals, oLocals, result, response,
                 store, calls, tried, smallest>>

\* the resize command succeeds; info is probed again from the resized file
ResizeOk ==
  /\ pc = "resize"
  /\ NeedsResize
  /\ \E s \in Sizes :
       LET in == File(inputPath)
           d  == ResizedDims(in.w, in.h, options.maxWidth, options.maxHeight)
           out == [w |-> d.w, h |-> d.h, frames |-> in.frames, size |-> s,
                   ok |-> TRUE, gen |-> in.gen + 1]
       IN /\ fs' = Write(fs, "resize", out)
          /\ info' = getGifInfo(out)
  /\ tempFiles' = tempFiles \cup {"resize"}
  /\ workingPath' = "resize"
  /\ calls' = calls \o <<"resize", "probe">>
  /\ pc' = "minDim"
  /\ UNCHANGED <<aux, run, origin, body, asset, hLocals, resultSize, level, currentFrames,
                 result, response, store, tried, smallest>>

\* the resize command throws: the error is logged and the pipeline goes on
\* with the file it had
ResizeFail ==
  /\ pc = "resize"
  /\ NeedsResize
  /\ tempFiles' = tempFiles \cup {"resize"}
  /\ calls' = Append(calls, "resize")
  /\ pc' = "minDim"
  /\ UNCHANGED <<aux, run, origin, body, asset, fs, hLocals, info, workingPath, resultSize,
                 level, currentFrames, result, response, store, tried, smallest>>

\* Step 0: info.width < minWidth || info.height < minHeight
NeedsPad == info.width < options.minWidth \/ info.height < options.minHeight

SkipPad ==
  /\ pc = "minDim"
  /\ ~NeedsPad
  /\ pc' = "sizeCheck"
  /\ UNCHANGED <<aux, run, origin, body, asset, fs, hLocals, oLocals, result, response,
                 store, calls, tried, smallest>>

\* variant: padding only when both axes are below their minimum
ensureMinimumDimensions_BothAxes(in, minWidth, minHeight, s) ==
  LET i == [width |-> IF in.ok THEN in.w ELSE 0, height |-> IF in.ok THEN in.h ELSE 0]
      needsPadding == i.width < minWidth /\ i.height < minHeight
  IN IF ~needsPadding THEN in
     ELSE [w |-> Max(i.width, minWidth), h |-> Max(i.height, minHeight),
           frames |-> in.frames, size |-> s, ok |-> TRUE, gen |-> in.gen + 1]

\* ensureMinimumDimensions(inputPath, outputPath, minWidth, minHeight): the
\* file it writes.  It probes its input itself; without need it copies, else
\* "convert -extent" sets the canvas to newWidth x newHeight.
ensureMinimumDimensions(in, minWidth, minHeight, s) ==
  LET i == getGifInfo(in)
      needsPadding == i.width < minWidth \/ i.height < minHeight
      newWidth  == Max(i.width, minWidth)
      newHeight == Max(i.height, minHeight)
  IN IF ~needsPadding THEN in
     ELSE [w |-> newWidth, h |-> newHeight, frames |-> in.frames, size |-> s,
           ok |-> TRUE, gen |-> in.gen + 1]

PadOk ==
  /\ pc = "minDim"
  /\ NeedsPad
  /\ \E s \in Sizes :
       fs' = Write(fs, "dim",
                   ensureMinimumDimensions(File(workingPath), options.minWidth,
                                           options.minHeight, s))
  /\ tempFiles' = tempFiles \cup {"dim"}
  /\ workingPath' = "dim"
  /\ calls' = calls \o <<"probe", "dominantEdgeColor", "pad">>
  /\ pc' = "sizeCheck"
  /\ UNCHANGED <<aux, run, origin, body, asset, hLocals, info, resultSize, level,
                 currentFrames, result, response, store, tried, smallest>>

\* ensureMinimumDimensions reports failure: tempFiles are unlinked and its
\* result is returned
PadFail ==
  /\ pc = "minDim"
  /\ NeedsPad
  /\ fs' = Unlink(fs, tempFiles \cup {"dim"})
  /\ tempFiles' = tempFiles \cup {"dim"}
  /\ calls' = calls \o <<"probe", "dominantEdgeColor", "pad">>
  /\ result' = [kind |-> "error", reason |-> "dimension"]
  /\ pc' = "cleanup"
  /\ UNCHANGED <<aux, run, origin, body, asset, hLocals, info, workingPath, resultSize,
                 level, currentFrames, response, store, tried, smallest>>

\* let resultSize = fs.statSync(workingPath).size; within the budget the
\* working file becomes the output (renamed, or copied when it is the input)
PassThrough ==
  /\ pc = "sizeCheck"
  /\ SizeLeq(File(workingPath).size, options.maxSizeBytes)
  /\ resultSize' = File(workingPath).size
  /\ LET moved == IF workingPath # inputPath
                    THEN Unlink(Write(fs, "output", File(workingPath)), {workingPath})
                    ELSE Write(fs, "output", File(workingPath))
         rest  == IF workingPath # inputPath THEN tempFiles \ {workingPath}
                                             ELSE tempFiles
     IN /\ fs' = Unlink(moved, rest)
        /\ tempFiles' = rest
  /\ result' = [kind |-> "success"]
  /\ pc' = "cleanup"
  /\ UNCHANGED <<aux, run, origin, body, asset, hLocals, info, workingPath, level,
                 currentFrames, response, store, calls, tried, smallest>>

StartLadder ==
  /\ pc = "sizeCheck"
  /\ ~SizeLeq(File(workingPath).size, options.maxSizeBytes)
  /\ resultSize' = File(workingPath).size
  /\ level' = 1
  /\ pc' = "ladder"
  /\ UNCHANGED <<aux, run, origin, body, asset, fs, hLocals, info, workingPath, tempFiles,
                 currentFrames, result, response, store, calls, tried, smallest>>

\* STEP 1 and STEP 2: gifsicle -O3 --colors N, N = 256 and then colorLevels
\* variant: the ladder stops at 48 colors
colorLevels_Without32 == <<256, 192, 128, 96, 64, 48>>

colorLevels == <<256, 192, 128, 96, 64, 48, 32>>

\* variant: the loop over the levels has no early return
LadderReturns_NoEarlyReturn(s, maxSizeBytes) == FALSE

\* what the ladder does after a recolor of size s: TRUE = return success
LadderReturns(s, maxSizeBytes) == SizeLeq(s, maxSizeBytes)

RecolorOk ==
  /\ pc = "ladder"
  /\ \E s \in Sizes :
       LET in  == File(workingPath)
           out == [in EXCEPT !.size = s, !.gen = in.gen + 1]
           met == LadderReturns(s, options.maxSizeBytes)
       IN /\ resultSize' = s
          /\ tried' = Append(tried, [colors |-> colorLevels[level],
                                    fits |-> SizeLeq(s, options.maxSizeBytes)])
          /\ smallest' = IF smallest = 0 THEN s ELSE Min(smallest, s)
          /\ IF met
               THEN /\ fs' = Unlink(Write(fs, "output", out), tempFiles)
                    /\ result' = [kind |-> "success"]
                    /\ pc' = "cleanup"
                    /\ level' = level
               ELSE /\ fs' = Write(fs, "output", out)
                    /\ result' = result
                    /\ IF level < Len(colorLevels)
                         THEN pc' = "ladder" /\ level' = level + 1
                         ELSE pc' = "gate" /\ level' = level
  /\ calls' = Append(calls, "recolor")
  /\ UNCHANGED <<aux, run, origin, body, asset, hLocals, info, workingPath, tempFiles,
                 currentFrames, response, store>>

\* gifsicle throws: the outer catch returns the error; tempFiles is out of
\* scope there and nothing is unlinked
RecolorFail ==
  /\ pc = "ladder"
  /\ calls' = Append(calls, "recolor")
  /\ result' = [kind |-> "error", reason |-> "exception"]
  /\ pc' = "cleanup"
  /\ UNCHANGED <<aux, run, origin, body, asset, fs, hLocals, oLocals, response, store, tried, smallest>>

\* Math.ceil((1 - (maxSizeBytes / resultSize)) * 100)
estimatedFrameReduction(maxSizeBytes, size) ==
  IF maxSizeBytes.nan THEN NaN
  ELSE LET d == 100 * (size - maxSizeBytes.v)
       IN Num(IF d >= 0 THEN (d + size - 1) \div size ELSE -((-d) \div size))

\* variant: the approval return forgets to unlink tempFiles
ApprovalGate_KeepsTempFiles ==
  /\ pc = "gate"
  /\ ~options.allowFrameReduction
  /\ result' = [kind |-> "approval",
                estimate |-> estimatedFrameReduction(options.maxSizeBytes, resultSize)]
  /\ pc' = "cleanup"
  /\ UNCHANGED <<aux, run, origin, body, asset, fs, hLocals, oLocals, response, store, calls, tried, smallest>>

\* if (!allowFrameReduction): unlink tempFiles, return requiresApproval
ApprovalGate ==
  /\ pc = "gate"
  /\ ~options.allowFrameReduction
  /\ fs' = Unlink(fs, tempFiles)
  /\ result' = [kind |-> "approval",
                estimate |-> estimatedFrameReduction(options.maxSizeBytes, resultSize)]
  /\ pc' = "cleanup"
  /\ UNCHANGED <<aux, run, origin, body, asset, hLocals, oLocals, response, store, calls, tried, smallest>>

\* variant: the frame loop is entered from 2 frames on
EnterFrameLoop_FromTwoFrames ==
  /\ pc = "gate"
  /\ options.allowFrameReduction
  /\ info.frames > 1
  /\ currentFrames' = getGifInfo(File("output")).frames
  /\ calls' = Append(calls, "probe")
  /\ pc' = "loop"
  /\ UNCHANGED <<aux, run, origin, body, asset, fs, hLocals, info, workingPath, tempFiles,
                 resultSize, level, result, response, store, tried, smallest>>

\* STEP 3 entered: if (info.frames > 2) { outputInfo = getGifInfo(outputPath) ... }
EnterFrameLoop ==
  /\ pc = "gate"
  /\ options.allowFrameReduction
  /\ info.frames > 2
  /\ currentFrames' = getGifInfo(File("output")).frames
  /\ calls' = Append(calls, "probe")
  /\ pc' = "loop"
  /\ UNCHANGED <<aux, run, origin, body, asset, fs, hLocals, info, workingPath, tempFiles,
                 resultSize, level, result, response, store, tried, smallest>>

SkipFrameLoop ==
  /\ pc = "gate"
  /\ options.allowFrameReduction
  /\ ~(info.frames > 2)
  /\ pc' = "final"
  /\ UNCHANGED <<aux, run, origin, body, asset, fs, hLocals, oLocals, result, response,
                 store, calls, tried, smallest>>

\* Math.max(1, Math.floor(currentFrames * 0.85))
framesToKeep(n) == Max(1, (n * 85) \div 100)
\* Math.ceil(currentFrames / framesToKeep)
stepOf(n) == (n + framesToKeep(n) - 1) \div framesToKeep(n)
\* variant: every frame is selected
frameSelector_EveryFrame(n) == 0..(n - 1)

\* for (let i = 0; i < currentFrames; i += step) frameSelector.push(`#${i}`)
frameSelector(n) == {i \in 0..(n - 1) : i % stepOf(n) = 0}

LoopCondition == SizeGt(resultSize, options.maxSizeBytes) /\ currentFrames > 1

\* the while condition is false, or framesToKeep >= currentFrames: break
ExitFrameLoop ==
  /\ pc = "loop"
  /\ ~LoopCondition \/ framesToKeep(currentFrames) >= currentFrames
  /\ pc' = "final"
  /\ UNCHANGED <<aux, run, origin, body, asset, fs, hLocals, oLocals, result, response,
                 store, calls, tried, smallest>>

\* one pass: copy the output to .temp.gif, gifsicle selects the frames of
\* frameSelector out of it into the output, .temp.gif is unlinked
SampleOk ==
  /\ pc = "loop"
  /\ LoopCondition /\ framesToKeep(currentFrames) < currentFrames
  /\ \A i \in frameSelector(currentFrames) : i < File("output").frames
  /\ \E s \in Sizes :
       LET in  == File("output")
           out == [in EXCEPT !.frames = Cardinality(frameSelector(currentFrames)),
                             !.size = s, !.gen = in.gen + 1]
       IN /\ fs' = Unlink(Write(fs, "output", out), {"temp"})
          /\ resultSize' = s
          /\ smallest' = IF smallest = 0 THEN s ELSE Min(smallest, s)
  /\ currentFrames' = framesToKeep(currentFrames)
  /\ calls' = Append(calls, "sample")
  /\ UNCHANGED <<aux, run, origin, pc, body, asset, hLocals, info, workingPath, tempFiles,
                 level, result, response, store, tried>>

\* gifsicle throws in a pass (it does whenever a selected frame does not
\* exist): .temp.gif stays, the outer catch returns the error
SampleFail ==
  /\ pc = "loop"
  /\ LoopCondition /\ framesToKeep(currentFrames) < currentFrames
  /\ fs' = Write(fs, "temp", File("output"))
  /\ tempFiles' = tempFiles \cup {"temp"}
  /\ calls' = Append(calls, "sample")
  /\ result' = [kind |-> "error", reason |-> "exception"]
  /\ pc' = "cleanup"
  /\ UNCHANGED <<aux, run, origin, body, asset, hLocals, info, workingPath, resultSize,
                 level, currentFrames, response, store, tried, smallest>>

\* unlink tempFiles; STEP 4: if (resultSize > maxSizeBytes) hard stop, else success
FinalCheck ==
  /\ pc = "final"
  /\ fs' = Unlink(fs, tempFiles)
  /\ result' = IF SizeGt(resultSize, options.maxSizeBytes)
                 THEN [kind |-> "error", reason |-> "budget", best |-> resultSize]
                 ELSE [kind |-> "success"]
  /\ pc' = "cleanup"
  /\ UNCHANGED <<aux, run, origin, body, asset, hLocals, oLocals, response, store, calls, tried, smallest>>

\* ------------------------------------- POST /api/convert, after the call
\* unlink tempGifPath and req.file.path
HandlerCleanup ==
  /\ pc = "cleanup"
  /\ fs' = Unlink(fs, {"upload"} \cup (IF tempGifPath THEN {"converted"} ELSE {}))
  /\ pc' = "respond"
  /\ UNCHANGED <<aux, run, origin, body, asset, hLocals, oLocals, result, response, store,
                 calls, tried, smallest>>

\* variant: the output is left in place
DiscardedOnStop_Nothing == {}

\* what the handler unlinks before it answers a result that is not a success
DiscardedOnStop == {"output"}

\* result.requiresApproval: unlink the output, 200 with requiresApproval
RespondApproval ==
  /\ pc = "respond"
  /\ result.kind = "approval"
  /\ fs' = Unlink(fs, DiscardedOnStop)
  /\ response' = [status |-> 200, kind |-> "approval"]
  /\ pc' = "done"
  /\ UNCHANGED <<aux, run, origin, body, asset, hLocals, oLocals, result, store, calls, tried, smallest>>

\* !result.success: unlink the output, 422
RespondError ==
  /\ pc = "respond"
  /\ result.kind = "error"
  /\ fs' = Unlink(fs, DiscardedOnStop)
  /\ response' = [status |-> 422, kind |-> "error"]
  /\ pc' = "done"
  /\ UNCHANGED <<aux, run, origin, body, asset, hLocals, oLocals, result, store, calls, tried, smallest>>

\* success: the result is saved under the output id and sent
RespondSuccess ==
  /\ pc = "respond"
  /\ result.kind = "success"
  /\ conversionVersion' = conversionVersion + 1
  /\ conversionResults' = conversionResults \cup {run}
  /\ response' = [status |-> 200, kind |-> "success",
                  finalSize |-> File("output").size,
                  finalInfo |-> getGifInfo(File("output"))]
  /\ pc' = "done"
  /\ UNCHANGED <<aux, run, origin, body, asset, fs, hLocals, oLocals, result, calls, tried, smallest>>

\* ------------------------------------------------------------ next request
NewRequest(a, b, o) ==
  /\ pc = "done"
  /\ run < MaxRuns
  /\ run' = run + 1
  /\ asset' = a
  /\ body' = b
  /\ pc' = "idle"
  /\ inputPath' = "upload"
  /\ tempGifPath' = FALSE
  /\ originalInfo' = NoInfo
  /\ options' = NoOptions
  /\ info' = NoInfo
  /\ workingPath' = "upload"
  /\ tempFiles' = {}
  /\ resultSize' = 0
  /\ level' = 1
  /\ currentFrames' = 0
  /\ result' = NoResult
  /\ response' = NoResponse
  /\ calls' = <<>>
  /\ tried' = <<>>
  /\ smallest' = 0
  /\ origin' = o
  /\ UNCHANGED <<aux, fs, store>>

\* the client sends the converted file through the same settings again
Reconvert ==
  /\ response.kind = "success"
  /\ NewRequest(fs[run]["output"], [body EXCEPT !.mime = "image/gif"], "reconvert")

\* handleApprovalConfirm: the same file and settings, allowFrameReduction = true
ApprovalConfirm ==
  /\ response.kind = "approval"
  /\ NewRequest(asset, [body EXCEPT !.allowFrameReduction = "true"], "confirm")

Next ==
  \/ Upload \/ RejectMode \/ KeepGif \/ ConvertToGifOk \/ ConvertToGifFail
  \/ ProbeOriginal \/ RejectFileSize \/ BuildOptions
  \/ SkipResize \/ ResizeOk \/ ResizeFail
  \/ SkipPad \/ PadOk \/ PadFail
  \/ PassThrough \/ StartLadder \/ RecolorOk \/ RecolorFail
  \/ ApprovalGate \/ EnterFrameLoop \/ SkipFrameLoop
  \/ ExitFrameLoop \/ SampleOk \/ SampleFail \/ FinalCheck
  \/ HandlerCleanup \/ RespondApproval \/ RespondError \/ RespondSuccess
  \/ Reconvert \/ ApprovalConfirm

Spec == Init /\ [][Next]_vars

\* the conversion handler at rest, for the specifications of the other parts
ConvIdle == ConvInit({CHOOSE b \in Bodies : TRUE}, {CHOOSE a \in Assets : TRUE})

\* ------------------------------------------------ ImageConverter (browser)
\* convertMutation.mutate(allowFrameReduction): the request is sent
mutate(c, allowFrameReduction) ==
  IF c.file
    THEN [c EXCEPT !.mutation = "pending", !.sent = Append(@, allowFrameReduction)]
    ELSE [c EXCEPT !.mutation = "error"]

\* convertMutation onSuccess: a 2xx answer, data names what the server sent
onSuccess(c, data) ==
  IF data = "requiresApproval"
    THEN [c EXCEPT !.mutation = "success", !.dialog = TRUE, !.approvals = @ + 1]
    ELSE [c EXCEPT !.mutation = "success", !.result = "success"]

\* convertMutation onError: any other answer; result is not touched
onError(c) == [c EXCEPT !.mutation = "error"]

handleApprovalConfirm(c) == mutate([c EXCEPT !.dialog = FALSE], TRUE)

handleApprovalCancel(c) == [c EXCEPT !.dialog = FALSE, !.result = "cancelled"]

\* <AlertDialog onOpenChange={(open) => !open && handleApprovalCancel()}>
onOpenChange(c, open) == IF ~open THEN handleApprovalCancel(c) ELSE c

handleFileSelect(c) == [c EXCEPT !.file = TRUE, !.result = "null"]

clearFile(c) == [c EXCEPT !.file = FALSE, !.result = "null"]

Event(c, e) == [c EXCEPT !.lastEvent = e]

\* the upload zone is shown while no file is selected
SelectFile ==
  /\ ~client.file /\ ~client.dialog
  /\ client' = Event(handleFileSelect(client), "select")
  /\ UNCHANGED <<convVars, tempVars, shareVars, fileVars, authVars, pathVars>>

\* the clear button is disabled while the mutation is pending
ClearFile ==
  /\ client.file /\ ~client.dialog /\ client.mutation # "pending"
  /\ client' = Event(clearFile(client), "clear")
  /\ UNCHANGED <<convVars, tempVars, shareVars, fileVars, authVars, pathVars>>

\* the Convert button: disabled={!canConvert || isPending}, mutate(false)
ClickConvert ==
  /\ client.file /\ ~client.dialog /\ client.mutation # "pending"
  /\ Len(client.sent) < MaxSent
  /\ client' = Event(mutate(client, FALSE), "convert")
  /\ UNCHANGED <<convVars, tempVars, shareVars, fileVars, authVars, pathVars>>

\* the server answers 200 with a conversion result
ReplySuccess ==
  /\ client.mutation = "pending"
  /\ client' = Event(onSuccess(client, "result"), "reply")
  /\ UNCHANGED <<convVars, tempVars, shareVars, fileVars, authVars, pathVars>>

\* the server answers 200 with requiresApproval; it does so only to a
\* request sent without allowFrameReduction
ReplyApproval ==
  /\ client.mutation = "pending"
  /\ ~client.sent[Len(client.sent)]
  /\ client' = Event(onSuccess(client, "requiresApproval"), "reply")
  /\ UNCHANGED <<convVars, tempVars, shareVars, fileVars, authVars, pathVars>>

\* the server answers 4xx or 5xx, or the upload fails
ReplyError ==
  /\ client.mutation = "pending"
  /\ client' = Event(onError(client), "reply")
  /\ UNCHANGED <<convVars, tempVars, shareVars, fileVars, authVars, pathVars>>

\* AlertDialogAction: its onClick runs, then the dialog closes itself
\* through onOpenChange(false)
ClickProceed ==
  /\ client.dialog
  /\ Len(client.sent) < MaxSent
  /\ client' = Event(onOpenChange(handleApprovalConfirm(client), FALSE), "proceed")
  /\ UNCHANGED <<convVars, tempVars, shareVars, fileVars, authVars, pathVars>>

\* AlertDialogCancel: its onClick runs, then the dialog closes itself
\* through onOpenChange(false)
ClickCancel ==
  /\ client.dialog
  /\ client' = Event(onOpenChange(handleApprovalCancel(client), FALSE), "cancel")
  /\ UNCHANGED <<convVars, tempVars, shareVars, fileVars, authVars, pathVars>>

\* the Escape key closes the dialog through onOpenChange(false)
DismissDialog ==
  /\ client.dialog
  /\ client' = Event(onOpenChange(client, FALSE), "dismiss")
  /\ UNCHANGED <<convVars, tempVars, shareVars, fileVars, authVars, pathVars>>

ClientNext ==
  \/ SelectFile \/ ClearFile \/ ClickConvert
  \/ ReplySuccess \/ ReplyApproval \/ ReplyError
  \/ ClickProceed \/ ClickCancel \/ DismissDialog

ClientInit == ConvIdle /\ AuxInit

ClientSpec == ClientInit /\ [][ClientNext]_vars

\* ------------------------------------ conversion requests side by side
\* multer filename: `${randomUUID()}-${sanitized originalname}` in UPLOAD_DIR
\* variant: the upload keeps its original name
uploadPath_OriginalName(uuid, name) == <<"uploads">> \o name

uploadPath(uuid, name) == <<"uploads", uuid>> \o name

\* path.join(CONVERTED_DIR, `${outputId}.gif`)
outputPathOf(uuid) == <<"converted", uuid, ".gif">>

\* a request reads, writes or unlinks a path: is it held by another one
Foreign(p, path) == \E d \in disk : d.path = path /\ d.owner # p

WritePath(d, p, path) == {x \in d : x.path # path} \cup {[path |-> path, owner |-> p]}
UnlinkPaths(d, paths) == {x \in d : x.path \notin paths}

\* multer stores the upload and the handler starts
StoreUpload(p) ==
  /\ inflight[p].pc = "waiting"
  /\ \E name \in Names :
       LET path == uploadPath(issued + 1, name)
       IN /\ foreign' = (foreign \/ Foreign(p, path))
          /\ disk' = WritePath(disk, p, path)
          /\ inflight' = [inflight EXCEPT ![p] =
               [@ EXCEPT !.pc = "uploaded", !.upload = path, !.input = path,
                         !.working = path]]
  /\ issued' = issued + 1
  /\ UNCHANGED <<convVars, tempVars, shareVars, fileVars, client, authVars>>

\* a non-GIF upload: convertToGif writes req.file.path + ".converted.gif"
\* (to == TRUE); a GIF upload is used as it is
ToGif(p, to) ==
  /\ inflight[p].pc = "uploaded"
  /\ LET path == inflight[p].upload \o <<".converted.gif">>
     IN IF to
          THEN /\ foreign' = (foreign \/ Foreign(p, inflight[p].upload) \/ Foreign(p, path))
               /\ disk' = WritePath(disk, p, path)
               /\ inflight' = [inflight EXCEPT ![p] =
                    [@ EXCEPT !.pc = "input", !.input = path, !.working = path]]
          ELSE /\ inflight' = [inflight EXCEPT ![p] = [@ EXCEPT !.pc = "input"]]
               /\ UNCHANGED <<disk, foreign>>
  /\ UNCHANGED <<convVars, tempVars, shareVars, fileVars, client, authVars, issued>>

\* STEP 0: inputPath + ".resize.gif", when the file exceeds a maximum
Resize(p, needed) ==
  /\ inflight[p].pc = "input"
  /\ LET path == inflight[p].input \o <<".resize.gif">>
     IN IF needed
          THEN /\ foreign' = (foreign \/ Foreign(p, inflight[p].input) \/ Foreign(p, path))
               /\ disk' = WritePath(disk, p, path)
               /\ inflight' = [inflight EXCEPT ![p] =
                    [@ EXCEPT !.pc = "resized", !.working = path,
                              !.tempFiles = @ \cup {path}]]
          ELSE /\ inflight' = [inflight EXCEPT ![p] = [@ EXCEPT !.pc = "resized"]]
               /\ UNCHANGED <<disk, foreign>>
  /\ UNCHANGED <<convVars, tempVars, shareVars, fileVars, client, authVars, issued>>

\* STEP 1: workingPath + ".dim.gif", when the file is below a minimum
Pad(p, needed) ==
  /\ inflight[p].pc = "resized"
  /\ LET path == inflight[p].working \o <<".dim.gif">>
     IN IF needed
          THEN /\ foreign' = (foreign \/ Foreign(p, inflight[p].working) \/ Foreign(p, path))
               /\ disk' = WritePath(disk, p, path)
               /\ inflight' = [inflight EXCEPT ![p] =
                    [@ EXCEPT !.pc = "normalized", !.working = path,
                              !.tempFiles = @ \cup {path}]]
          ELSE /\ inflight' = [inflight EXCEPT ![p] = [@ EXCEPT !.pc = "normalized"]]
               /\ UNCHANGED <<disk, foreign>>
  /\ UNCHANGED <<convVars, tempVars, shareVars, fileVars, client, authVars, issued>>

\* the copy or the recolored encodings: workingPath is read and
\* CONVERTED_DIR/<outputId>.gif written; outputId is a new UUID
WriteOutput(p) ==
  /\ inflight[p].pc = "normalized"
  /\ LET path == outputPathOf(issued + 1)
     IN /\ foreign' = (foreign \/ Foreign(p, inflight[p].working) \/ Foreign(p, path))
        /\ disk' = WritePath(disk, p, path)
        /\ inflight' = [inflight EXCEPT ![p] = [@ EXCEPT !.pc = "encoded", !.output = path]]
  /\ issued' = issued + 1
  /\ UNCHANGED <<convVars, tempVars, shareVars, fileVars, client, authVars>>

\* a frame pass: outputPath + ".temp.gif" is written, read back into the
\* output and unlinked; when gifsicle throws (~ok) it stays
FramePass(p, ok) ==
  /\ inflight[p].pc = "encoded"
  /\ LET path == inflight[p].output \o <<".temp.gif">>
     IN /\ foreign' = (foreign \/ Foreign(p, inflight[p].output) \/ Foreign(p, path))
        /\ disk' = IF ok THEN UnlinkPaths(WritePath(disk, p, inflight[p].output), {path})
                         ELSE WritePath(disk, p, path)
  /\ inflight' = [inflight EXCEPT ![p] = [@ EXCEPT !.pc = "sampled"]]
  /\ UNCHANGED <<convVars, tempVars, shareVars, fileVars, client, authVars, issued>>

\* the end of the request: tempFiles, the converted GIF and the upload are
\* unlinked, and the output too unless the request succeeded (kept)
Finish(p, kept) ==
  /\ inflight[p].pc \in {"encoded", "sampled"}
  /\ LET paths == inflight[p].tempFiles \cup {inflight[p].input, inflight[p].upload}
                     \cup (IF kept THEN {} ELSE {inflight[p].output})
     IN /\ foreign' = (foreign \/ \E path \in paths : Foreign(p, path))
        /\ disk' = UnlinkPaths(disk, paths)
  /\ inflight' = [inflight EXCEPT ![p] = [@ EXCEPT !.pc = "done"]]
  /\ UNCHANGED <<convVars, tempVars, shareVars, fileVars, client, authVars, issued>>

PathNext ==
  \/ \E p \in Requests : StoreUpload(p)
  \/ \E p \in Requests, to \in BOOLEAN : ToGif(p, to)
  \/ \E p \in Requests, needed \in BOOLEAN : Resize(p, needed)
  \/ \E p \in Requests, needed \in BOOLEAN : Pad(p, needed)
  \/ \E p \in Requests : WriteOutput(p)
  \/ \E p \in Requests, ok \in BOOLEAN : FramePass(p, ok)
  \/ \E p \in Requests, kept \in BOOLEAN : Finish(p, kept)

PathInit == ConvIdle /\ AuxInit

PathSpec == PathInit /\ [][PathNext]_vars

\* ------------------------------------------------- login attempts, blocks
\* the hours at which the clock is read: around the 1 hour window of the
\* attempts, the end of a home session and the end of a block
Hours == {h \in 0..MaxHours :
            h \in {0, 1, HOME_AUTH_HOURS, BLOCK_DURATION_HOURS, BLOCK_DURATION_HOURS + 1}}

\* isShareExpired (temp-drive-auth): expiresAt !== null and not after now
isShareExpired(expiresAt) == expiresAt # 0 /\ expiresAt <= now

\* storage.isIpBlocked: a block of this IP that has not expired
isIpBlocked(ip) == \E b \in blockedIps : b.ip = ip /\ b.expiresAt > now

\* storage.saveLoginAttempt then storage.getLoginAttempts: the failed
\* attempts of this IP within the last hour, the one just saved included
saveLoginAttempt(ip, success) ==
  Append(loginAttempts, [ip |-> ip, success |-> success, timestamp |-> now])

getLoginAttempts(attempts, ip) ==
  SelectSeq(attempts, LAMBDA a : a.ip = ip /\ a.timestamp > now - 1 /\ ~a.success)

\* storage.blockIp: replaces a block of the same IP
blockIp(b) == {x \in blockedIps : x.ip # b.ip} \cup {b}

\* checkAndRecordLoginAttempt(ip, type, shareId, success): the attempt is
\* saved; a failed one blocks the IP when the failed attempts of the last
\* hour are MAX_LOGIN_ATTEMPTS or more.  blocked is what it returns.
checkAndRecordLoginAttempt(ip, success, blocked) ==
  IF isIpBlocked(ip)
    THEN blocked /\ UNCHANGED <<loginAttempts, blockedIps, attemptsMade>>
    ELSE /\ loginAttempts' = saveLoginAttempt(ip, success)
         /\ attemptsMade' = [total |-> attemptsMade.total + 1,
                             failed |-> IF success THEN attemptsMade.failed
                                        ELSE [attemptsMade.failed EXCEPT ![ip] = @ + 1]]
         /\ IF ~success /\ Len(getLoginAttempts(loginAttempts', ip)) >= MAX_LOGIN_ATTEMPTS
              THEN /\ blockedIps' = blockIp([ip |-> ip, blockedAt |-> now,
                                             expiresAt |-> now + BLOCK_DURATION_HOURS])
                   /\ blocked
              ELSE /\ UNCHANGED blockedIps
                   /\ ~blocked

\* POST /api/home/login with a wrong password
HomeLoginWrong(ip) ==
  /\ attemptsMade.total < MaxAttempts
  /\ IF isIpBlocked(ip)
       THEN /\ reply' = [endpoint |-> "home/login", status |-> 403]
            /\ UNCHANGED <<loginAttempts, blockedIps, attemptsMade>>
       ELSE \E blocked \in BOOLEAN :
              /\ checkAndRecordLoginAttempt(ip, FALSE, blocked)
              /\ reply' = [endpoint |-> "home/login",
                           status |-> IF blocked THEN 403 ELSE 401]
  /\ UNCHANGED <<convVars, tempVars, shareVars, fileVars, client, pathVars, admin, now, session, tdSessions, drive>>

\* POST /api/home/login with the admin password
HomeLoginRight(ip) ==
  /\ attemptsMade.total < MaxAttempts
  /\ IF isIpBlocked(ip)
       THEN /\ reply' = [endpoint |-> "home/login", status |-> 403]
            /\ UNCHANGED <<loginAttempts, blockedIps, attemptsMade, session>>
       ELSE /\ \E blocked \in BOOLEAN : checkAndRecordLoginAttempt(ip, TRUE, blocked)
            /\ session' = [homeAuthenticated |-> TRUE,
                           homeAuthExpires |-> now + HOME_AUTH_HOURS]
            /\ reply' = [endpoint |-> "home/login", status |-> 200]
  /\ UNCHANGED <<convVars, tempVars, shareVars, fileVars, client, pathVars, admin, now, tdSessions, drive>>

\* DELETE /api/temp-drive/blocked-ips/:ip by the admin: storage.unblockIp
AdminUnblock(ip) ==
  /\ \E b \in blockedIps : b.ip = ip
  /\ blockedIps' = {b \in blockedIps : b.ip # ip}
  /\ UNCHANGED <<convVars, tempVars, shareVars, fileVars, client, pathVars, admin, now, session, loginAttempts, attemptsMade, reply, tdSessions, drive>>

\* time passes to the hour h, where the 5 minute schedule runs
\* cleanExpiredSessions, cleanOldLoginAttempts and cleanExpiredBlocks and
\* deletes the share if it is active and expired
Tick(h) ==
  /\ h > now
  /\ now' = h
  /\ tdSessions' = {s \in tdSessions : s.expiresAt > h}
  /\ loginAttempts' = SelectSeq(loginAttempts, LAMBDA a : a.timestamp > h - 1)
  /\ blockedIps' = {b \in blockedIps : b.expiresAt > h}
  /\ drive' = IF drive.exists /\ drive.active /\ drive.expiresAt # 0 /\ drive.expiresAt <= h
                THEN [drive EXCEPT !.exists = FALSE]
                ELSE drive
  /\ UNCHANGED <<convVars, tempVars, shareVars, fileVars, client, pathVars, admin, session, attemptsMade, reply>>

LoginNext ==
  \/ \E ip \in IPs : HomeLoginWrong(ip)
  \/ \E ip \in IPs : HomeLoginRight(ip)
  \/ \E ip \in IPs : AdminUnblock(ip)
  \/ \E h \in Hours : Tick(h)

LoginInit == ConvIdle /\ AuxInit

LoginSpec == LoginInit /\ [][LoginNext]_vars

\* ------------------------------------------- the /api gate and the routes
\* req.path below /api, as its segments; a trailing slash is an empty
\* last segment
Endpoints == {
  [name |-> "health",                    method |-> "GET",    path |-> <<"health">>],
  [name |-> "home/session",              method |-> "GET",    path |-> <<"home", "session">>],
  [name |-> "image/metadata",            method |-> "POST",   path |-> <<"image", "metadata">>],
  [name |-> "convert",                   method |-> "POST",   path |-> <<"convert">>],
  [name |-> "converted/:filename",       method |-> "GET",    path |-> <<"converted", ":filename">>],
  [name |-> "files/upload",              method |-> "POST",   path |-> <<"files", "upload">>],
  [name |-> "files",                     method |-> "GET",    path |-> <<"files">>],
  [name |-> "files/info/:fileId",        method |-> "GET",    path |-> <<"files", "info", ":fileId">>],
  [name |-> "files/download/:filename",  method |-> "GET",    path |-> <<"files", "download", ":filename">>],
  [name |-> "files/:id",                 method |-> "DELETE", path |-> <<"files", ":id">>],
  [name |-> "temp-drive/share/validate/:token", method |-> "GET",
                                         path |-> <<"temp-drive", "share", "validate", ":token">>],
  [name |-> "temp-drive/files",          method |-> "GET",    path |-> <<"temp-drive", "files">>],
  [name |-> "temp-drive/files/upload",   method |-> "POST",   path |-> <<"temp-drive", "files", "upload">>],
  [name |-> "temp-drive/files/download/:id", method |-> "GET",
                                         path |-> <<"temp-drive", "files", "download", ":id">>] }

\* the prefixes, as segments; each of them but "/health" ends in a slash
publicPathPrefixes == {
  [segments |-> <<"health">>,              slash |-> FALSE],
  [segments |-> <<"home">>,                slash |-> TRUE],
  [segments |-> <<"temp-drive", "share">>, slash |-> TRUE],
  [segments |-> <<"download">>,            slash |-> TRUE],
  [segments |-> <<"files">>,               slash |-> TRUE] }

\* path.startsWith(prefix); no first segment of Endpoints other than
\* "health" begins with "health"
startsWith(path, prefix) ==
  LET n == Len(prefix.segments)
  IN /\ Len(path) >= n
     /\ SubSeq(path, 1, n) = prefix.segments
     /\ prefix.slash => Len(path) > n

isPublicPath(path) == \E prefix \in publicPathPrefixes : startsWith(path, prefix)

\* requireHomeAuth lets the request through
homeAuthenticated ==
  /\ session.homeAuthenticated
  /\ session.homeAuthExpires # 0
  /\ session.homeAuthExpires > now

\* the bearer tokens a request may carry; 0 is no Authorization header
Tokens == 0..MaxSessions

TempDriveEndpoints ==
  {"temp-drive/files", "temp-drive/files/upload", "temp-drive/files/download/:id"}

\* validateTempDriveSession: the session of the token, unexpired, and for a
\* share session the share found, active and unexpired and sharing enabled
validSession(token) ==
  \E s \in tdSessions :
    /\ s.token = token
    /\ s.expiresAt > now
    /\ s.type = "share" =>
         /\ drive.exists /\ drive.active /\ drive.sharingEnabled
         /\ ~isShareExpired(drive.expiresAt)

\* the status a request gets: 401 from the gate, else what the route sends
respond(e, token) ==
  IF ~isPublicPath(e.path) /\ ~homeAuthenticated THEN 401
  ELSE IF e.name \in TempDriveEndpoints /\ ~validSession(token) THEN 401
  ELSE 200

\* a request to a Temp Drive file route; past the gate,
\* validateTempDriveSession deletes the session it finds expired or
\* without its share
TempDriveRequest(e, token) ==
  /\ e.name \in TempDriveEndpoints
  /\ reply' = [endpoint |-> e.name, status |-> respond(e, token)]
  /\ tdSessions' =
       IF (isPublicPath(e.path) \/ homeAuthenticated) /\ ~validSession(token)
         THEN {s \in tdSessions : s.token # token}
         ELSE tdSessions
  /\ UNCHANGED <<convVars, tempVars, shareVars, fileVars, client, pathVars, admin, now, session, loginAttempts, attemptsMade, blockedIps, drive>>

\* POST /api/home/logout
HomeLogout ==
  /\ session' = NoSession
  /\ UNCHANGED <<convVars, tempVars, shareVars, fileVars, client, pathVars, admin, now, loginAttempts, attemptsMade, blockedIps, reply, tdSessions, drive>>

\* temp-drive-auth: the hours a Temp Drive session lasts
SESSION_DURATION_HOURS == 4

\* getSessionExpiryDate (temp-drive-auth)
getSessionExpiryDate == now + SESSION_DURATION_HOURS

\* POST /api/temp-drive/share/access/:token with the share's password (or
\* for a share without one): a share session is saved and its token sent
ShareAccess(ip) ==
  /\ attemptsMade.total < MaxAttempts
  /\ Cardinality(tdSessions) < MaxSessions
  /\ IF isIpBlocked(ip) \/ ~drive.sharingEnabled
       THEN /\ reply' = [endpoint |-> "temp-drive/share/access/:token", status |-> 403]
            /\ UNCHANGED <<loginAttempts, blockedIps, attemptsMade, tdSessions, drive>>
     ELSE IF ~drive.exists \/ ~drive.active
       THEN /\ reply' = [endpoint |-> "temp-drive/share/access/:token", status |-> 404]
            /\ UNCHANGED <<loginAttempts, blockedIps, attemptsMade, tdSessions, drive>>
     ELSE IF isShareExpired(drive.expiresAt)
       THEN /\ drive' = [drive EXCEPT !.exists = FALSE]
            /\ reply' = [endpoint |-> "temp-drive/share/access/:token", status |-> 410]
            /\ UNCHANGED <<loginAttempts, blockedIps, attemptsMade, tdSessions>>
     ELSE /\ UNCHANGED drive
          /\ \E blocked \in BOOLEAN : checkAndRecordLoginAttempt(ip, TRUE, blocked)
          /\ \E t \in Tokens \ {0} :
               /\ \A s \in tdSessions : s.token # t
               /\ \A u \in Tokens \ {0} : u < t => \E s \in tdSessions : s.token = u
               /\ tdSessions' = tdSessions \cup
                    {[token |-> t, type |-> "share", expiresAt |-> getSessionExpiryDate]}
          /\ reply' = [endpoint |-> "temp-drive/share/access/:token", status |-> 200]
  /\ UNCHANGED <<convVars, tempVars, shareVars, fileVars, client, pathVars, admin, now, session>>

\* PATCH /api/temp-drive/shares/:id by the admin: active
AdminSetActive(active) ==
  /\ drive.exists
  /\ drive' = [drive EXCEPT !.active = active]
  /\ UNCHANGED <<convVars, tempVars, shareVars, fileVars, client, pathVars, admin, now, session, loginAttempts, attemptsMade, blockedIps, reply,
                 tdSessions>>

\* POST /api/temp-drive/global-sharing by the admin
AdminGlobalSharing(enabled) ==
  /\ drive' = [drive EXCEPT !.sharingEnabled = enabled]
  /\ UNCHANGED <<convVars, tempVars, shareVars, fileVars, client, pathVars, admin, now, session, loginAttempts, attemptsMade, blockedIps, reply,
                 tdSessions>>

\* the expiryMinutes of a share update, in hours; 0 is none
ExpiryHours == {0, 1}

\* PATCH /api/temp-drive/shares/:id by the admin: expiryMinutes
AdminSetExpiry(d) ==
  /\ drive.exists
  /\ drive' = [drive EXCEPT !.expiresAt = IF d # 0 THEN now + d ELSE 0]
  /\ UNCHANGED <<convVars, tempVars, shareVars, fileVars, client, pathVars, admin, now, session, loginAttempts, attemptsMade, blockedIps, reply,
                 tdSessions>>

\* DELETE /api/temp-drive/shares/:id by the admin: storage.deleteTempDriveShare
AdminDeleteShare ==
  /\ drive.exists
  /\ drive' = [drive EXCEPT !.exists = FALSE]
  /\ UNCHANGED <<convVars, tempVars, shareVars, fileVars, client, pathVars, admin, now, session, loginAttempts, attemptsMade, blockedIps, reply,
                 tdSessions>>

\* time passes to the hour h and the 5 minute schedule has not run yet
TimePasses(h) ==
  /\ h > now
  /\ now' = h
  /\ UNCHANGED <<convVars, tempVars, shareVars, fileVars, client, pathVars, admin, session, loginAttempts, attemptsMade, blockedIps, reply,
                 tdSessions, drive>>

\* the address of the one browser of this specification
VisitorIp == "10.0.0.1"

AccessNext ==
  \/ HomeLoginRight(VisitorIp)
  \/ HomeLogout
  \/ ShareAccess(VisitorIp)
  \/ \E e \in Endpoints, token \in Tokens : TempDriveRequest(e, token)
  \/ \E active \in BOOLEAN : AdminSetActive(active)
  \/ \E enabled \in BOOLEAN : AdminGlobalSharing(enabled)
  \/ \E h \in Hours : Tick(h)

AccessInit == ConvIdle /\ AuxInit

AccessSpec == AccessInit /\ [][AccessNext]_vars

\* a share session over the life of its share: the visitor is past the
\* /api gate or not, the admin changes and deletes the share, time passes
SessionNext ==
  \/ HomeLoginRight(VisitorIp)
  \/ ShareAccess(VisitorIp)
  \/ \E e \in Endpoints, token \in Tokens : TempDriveRequest(e, token)
  \/ \E active \in BOOLEAN : AdminSetActive(active)
  \/ \E enabled \in BOOLEAN : AdminGlobalSharing(enabled)
  \/ \E d \in ExpiryHours : AdminSetExpiry(d)
  \/ AdminDeleteShare
  \/ \E h \in Hours : TimePasses(h)
  \/ \E h \in Hours : Tick(h)

SessionInit == ConvIdle /\ AuxInit

SessionSpec == SessionInit /\ [][SessionNext]_vars

\* ------------------------------------------- Temp Drive: the share's files
\* req.file.size of the uploads (tempDriveUpload sets no size limit)
FileSizes == {400 * MB, 700 * MB}

Job(j, r) == [jobs EXCEPT ![j] = r]

\* POST /api/temp-drive/files/upload by a share session, up to the first
\* await that yields: fileId = randomUUID(), and getTempDriveShare reads the
\* share
UploadBegin(j, size) ==
  /\ jobs[j].pc = "rest"
  /\ issued < MaxUploads
  /\ issued' = issued + 1
  /\ jobs' = Job(j, [Resting EXCEPT !.pc = "share", !.used = usedBytes,
                                    !.file = [id |-> issued + 1, fileSize |-> size]])
  /\ UNCHANGED <<convVars, tempVars, client, authVars, fileVars, inflight, disk, foreign,
                 usedBytes, shareFiles>>

\* share.usedBytes + req.file.size > SHARE_QUOTA_BYTES: 507; else the file is
\* moved into the share's folder and saveShareFile records it
UploadCheck(j) ==
  /\ jobs[j].pc = "share"
  /\ IF jobs[j].used + jobs[j].file.fileSize > SHARE_QUOTA_BYTES
       THEN /\ jobs' = Job(j, [Resting EXCEPT !.file = jobs[j].file, !.status = 507])
            /\ UNCHANGED shareFiles
       ELSE /\ shareFiles' = shareFiles \cup {jobs[j].file}
            /\ jobs' = Job(j, [jobs[j] EXCEPT !.pc = "saved"])
  /\ UNCHANGED <<convVars, tempVars, client, authVars, fileVars, pathVars, usedBytes>>

\* updateTempDriveShare is called and reads the shares
UploadUpdate(j) ==
  /\ jobs[j].pc = "saved"
  /\ jobs' = Job(j, [jobs[j] EXCEPT !.pc = "update"])
  /\ UNCHANGED <<convVars, tempVars, client, authVars, fileVars, pathVars, usedBytes, shareFiles>>

\* updateTempDriveShare writes { usedBytes: share.usedBytes + req.file.size }
UploadCommit(j) ==
  /\ jobs[j].pc = "update"
  /\ usedBytes' = jobs[j].used + jobs[j].file.fileSize
  /\ jobs' = Job(j, [Resting EXCEPT !.status = 200])
  /\ UNCHANGED <<convVars, tempVars, client, authVars, fileVars, pathVars, shareFiles>>

\* DELETE /api/temp-drive/files/:id?shareId= by the admin: getTempDriveShare
\* reads the share
DeleteBegin(j, id) ==
  /\ jobs[j].pc = "rest"
  /\ id \in 1..issued
  /\ jobs' = Job(j, [Resting EXCEPT !.pc = "dShare", !.used = usedBytes,
                                    !.file = [id |-> id, fileSize |-> 0]])
  /\ UNCHANGED <<convVars, tempVars, client, authVars, fileVars, pathVars, usedBytes, shareFiles>>

\* getShareFiles reads the files of the share
DeleteList(j) ==
  /\ jobs[j].pc = "dShare"
  /\ jobs' = Job(j, [jobs[j] EXCEPT !.pc = "dListed", !.listed = shareFiles])
  /\ UNCHANGED <<convVars, tempVars, client, authVars, fileVars, pathVars, usedBytes, shareFiles>>

\* files.find: 404 without the file; else it is unlinked and deleteShareFile
\* removes its record
DeleteUnlink(j) ==
  /\ jobs[j].pc = "dListed"
  /\ IF \E f \in jobs[j].listed : f.id = jobs[j].file.id
       THEN LET file == CHOOSE f \in jobs[j].listed : f.id = jobs[j].file.id
            IN /\ shareFiles' = {f \in shareFiles : f.id # file.id}
               /\ jobs' = Job(j, [jobs[j] EXCEPT !.pc = "dDeleted", !.file = file])
       ELSE /\ jobs' = Job(j, [Resting EXCEPT !.status = 404])
            /\ UNCHANGED shareFiles
  /\ UNCHANGED <<convVars, tempVars, client, authVars, fileVars, pathVars, usedBytes>>

\* updateTempDriveShare is called and reads the shares
DeleteUpdate(j) ==
  /\ jobs[j].pc = "dDeleted"
  /\ jobs' = Job(j, [jobs[j] EXCEPT !.pc = "dUpdate"])
  /\ UNCHANGED <<convVars, tempVars, client, authVars, fileVars, pathVars, usedBytes, shareFiles>>

\* updateTempDriveShare writes
\* { usedBytes: Math.max(0, share.usedBytes - file.fileSize) }
DeleteCommit(j) ==
  /\ jobs[j].pc = "dUpdate"
  /\ usedBytes' = Max(0, jobs[j].used - jobs[j].file.fileSize)
  /\ jobs' = Job(j, [Resting EXCEPT !.status = 200])
  /\ UNCHANGED <<convVars, tempVars, client, authVars, fileVars, pathVars, shareFiles>>

QuotaNext ==
  \/ \E j \in Jobs, size \in FileSizes : UploadBegin(j, size)
  \/ \E j \in Jobs : UploadCheck(j)
  \/ \E j \in Jobs : UploadUpdate(j)
  \/ \E j \in Jobs : UploadCommit(j)
  \/ \E j \in Jobs, id \in 1..MaxUploads : DeleteBegin(j, id)
  \/ \E j \in Jobs : DeleteList(j)
  \/ \E j \in Jobs : DeleteUnlink(j)
  \/ \E j \in Jobs : DeleteUpdate(j)
  \/ \E j \in Jobs : DeleteCommit(j)

QuotaInit == ConvIdle /\ AuxInit

QuotaSpec == QuotaInit /\ [][QuotaNext]_vars

\* ---------------------------------------------- temporary file sharing
\* req.body.expiryHours as the clients send it
ExpiryValues == {"", "0.05", "0.1", "24", "25", "abc"}

\* parseFloat of these values, in hundredths of an hour
ParseHours(s) ==
  CASE s = "0.05" -> Num(5)
    [] s = "0.1"  -> Num(10)
    [] s = "24"   -> Num(2400)
    [] s = "25"   -> Num(2500)
    [] OTHER      -> NaN

\* the instants at which the clock is read: around the shortest and the
\* longest expiry of a file uploaded at 0 or at 10
Instants == {0, 9, 10, 2400, 2409, 2410}

\* fileUploadRequestSchema.safeParse({ expiryHours: parseFloat(v || "24") }):
\* z.number().min(0.1).max(24); 24 when it fails, and when the value is
\* <= 0 or > 24
expiryHoursOf(s) ==
  LET n == ParseHours(StrOr(s, "24"))
      success == ~n.nan /\ n.v >= 10 /\ n.v <= 2400
      expiryHours == IF success THEN n.v ELSE 2400
  IN IF expiryHours <= 0 \/ expiryHours > 2400 THEN 2400 ELSE expiryHours

\* path.extname(req.file.originalname) of the files uploaded, as
\* characters: "notes.a" and "notes.a~"
Exts == {<<".", "a">>, <<".", "a", "~">>}

\* path.extname(name).replace(/[^a-zA-Z0-9.]/g, ''): of the characters of
\* Exts the letter and the dot stay
stripExt(ext) == SelectSeq(ext, LAMBDA c : c \in {".", "a"})

\* POST /api/files/upload: the file is moved to SHARED_DIR/<fileId><ext>,
\* ext stripped, and its record saved with the original name
FileUpload(v, ext) ==
  /\ issued < MaxUploads
  /\ issued' = issued + 1
  /\ LET file == [id |-> issued + 1, fileName |-> ext, createdAt |-> clock,
                  expiresAt |-> clock + expiryHoursOf(v)]
     IN /\ uploadedFiles' = uploadedFiles \cup {file}
        /\ sharedDir' = sharedDir \cup {<<file.id, stripExt(ext)>>}
        /\ uploads' = uploads \cup {[id |-> file.id, asked |-> v,
                                     createdAt |-> file.createdAt,
                                     expiresAt |-> file.expiresAt]}
  /\ UNCHANGED <<convVars, tempVars, client, authVars, shareVars, inflight, disk, foreign, clock>>

\* DELETE /api/files/:id: 404 without the record; else the file is unlinked
\* and the record deleted (the file is taken back: it leaves the history)
FileDelete(id) ==
  /\ \E f \in uploadedFiles : f.id = id
  /\ sharedDir' = sharedDir \ {<<f.id, stripExt(f.fileName)>> : f \in {x \in uploadedFiles : x.id = id}}
  /\ uploadedFiles' = {f \in uploadedFiles : f.id # id}
  /\ uploads' = {u \in uploads : u.id # id}
  /\ UNCHANGED <<convVars, tempVars, client, authVars, shareVars, pathVars, clock>>

\* storage.getExpiredFiles
getExpiredFiles == {f \in uploadedFiles : f.expiresAt <= clock}

\* cleanupExpiredFiles, scheduled every minute: for every expired file
\* SHARED_DIR/<id><path.extname(fileName)> is unlinked if it exists, and the
\* record is deleted
CleanupExpiredFiles ==
  /\ getExpiredFiles # {}
  /\ sharedDir' = sharedDir \ {<<f.id, f.fileName>> : f \in getExpiredFiles}
  /\ uploadedFiles' = uploadedFiles \ getExpiredFiles
  /\ UNCHANGED <<convVars, tempVars, client, authVars, shareVars, pathVars, clock, uploads>>

\* time passes to the instant t
ClockTick(t) ==
  /\ t > clock
  /\ clock' = t
  /\ UNCHANGED <<convVars, tempVars, client, authVars, shareVars, pathVars, uploadedFiles,
                 sharedDir, uploads>>

\* GET /api/files: the ids listed
getFiles == {f.id : f \in {x \in uploadedFiles : x.expiresAt > clock}}

\* variant: the info route does not look at the expiry
getFileInfo_NoExpiry(id) ==
  IF ~\E f \in uploadedFiles : f.id = id THEN 404 ELSE 200

\* GET /api/files/info/:fileId: the status sent
getFileInfo(id) ==
  IF ~\E f \in uploadedFiles : f.id = id THEN 404
  ELSE LET file == CHOOSE f \in uploadedFiles : f.id = id
       IN IF file.expiresAt <= clock THEN 410 ELSE 200

\* GET /api/files/download/:filename: the status sent
downloadFile(id) ==
  IF ~\E f \in uploadedFiles : f.id = id THEN 404
  ELSE LET file == CHOOSE f \in uploadedFiles : f.id = id
       IN IF file.expiresAt <= clock THEN 410
          ELSE IF <<id, stripExt(file.fileName)>> \notin sharedDir THEN 404 ELSE 200

FileNext ==
  \/ \E v \in ExpiryValues, ext \in Exts : FileUpload(v, ext)
  \/ \E id \in 1..MaxUploads : FileDelete(id)
  \/ CleanupExpiredFiles
  \/ \E t \in Instants : ClockTick(t)

FileInit == ConvIdle /\ AuxInit

FileSpec == FileInit /\ [][FileNext]_vars

\* ----------------------------------------------- Temp Drive admin sign-in
\* generateSessionToken and storage.saveTempDriveSession: a session of the
\* given type under the next unused token
saveTempDriveSession(type) ==
  \E t \in Tokens \ {0} :
    /\ \A s \in tdSessions : s.token # t
    /\ \A u \in Tokens \ {0} : u < t => \E s \in tdSessions : s.token = u
    /\ tdSessions' = tdSessions \cup {[token |-> t, type |-> type, expiresAt |-> getSessionExpiryDate]}

\* POST /api/temp-drive/admin/login: 403 for a blocked IP; a wrong password
\* or a wrong OTP is recorded as a failed attempt; the first right password
\* creates the admin record, and until TOTP is set up the answer is the QR
\* code; with TOTP set up and a right OTP an admin session is saved
AdminLogin(ip, passwordOk, otpOk) ==
  /\ attemptsMade.total < MaxAttempts
  /\ Cardinality(tdSessions) < MaxSessions
  /\ IF isIpBlocked(ip)
       THEN /\ reply' = [endpoint |-> "temp-drive/admin/login", status |-> 403]
            /\ UNCHANGED <<loginAttempts, blockedIps, attemptsMade, tdSessions, admin>>
     ELSE IF ~passwordOk \/ (admin = "complete" /\ ~otpOk)
       THEN /\ \E blocked \in BOOLEAN :
                 /\ checkAndRecordLoginAttempt(ip, FALSE, blocked)
                 /\ reply' = [endpoint |-> "temp-drive/admin/login",
                              status |-> IF blocked THEN 403 ELSE 401]
            /\ UNCHANGED <<tdSessions, admin>>
     ELSE IF admin # "complete"
       THEN /\ admin' = "pending"
            /\ reply' = [endpoint |-> "temp-drive/admin/login", status |-> 200]
            /\ UNCHANGED <<loginAttempts, blockedIps, attemptsMade, tdSessions>>
     ELSE /\ \E blocked \in BOOLEAN : checkAndRecordLoginAttempt(ip, TRUE, blocked)
          /\ saveTempDriveSession("admin")
          /\ reply' = [endpoint |-> "temp-drive/admin/login", status |-> 200]
          /\ UNCHANGED admin
  /\ UNCHANGED <<convVars, tempVars, shareVars, fileVars, client, pathVars, now, session, drive>>

\* POST /api/temp-drive/admin/setup-totp: 401 for a wrong password, 400
\* without an admin record, 401 for a wrong OTP; else TOTP is set up and an
\* admin session is saved.  Neither the block list nor the attempts are
\* looked at.
AdminSetupTotp(ip, passwordOk, otpOk) ==
  /\ Cardinality(tdSessions) < MaxSessions
  /\ IF ~passwordOk
       THEN /\ reply' = [endpoint |-> "temp-drive/admin/setup-totp", status |-> 401]
            /\ UNCHANGED <<tdSessions, admin>>
     ELSE IF admin = "none"
       THEN /\ reply' = [endpoint |-> "temp-drive/admin/setup-totp", status |-> 400]
            /\ UNCHANGED <<tdSessions, admin>>
     ELSE IF ~otpOk
       THEN /\ reply' = [endpoint |-> "temp-drive/admin/setup-totp", status |-> 401]
            /\ UNCHANGED <<tdSessions, admin>>
     ELSE /\ admin' = "complete"
          /\ saveTempDriveSession("admin")
          /\ reply' = [endpoint |-> "temp-drive/admin/setup-totp", status |-> 200]
  /\ UNCHANGED <<convVars, tempVars, shareVars, fileVars, client, pathVars, now, session, drive,
                 loginAttempts, blockedIps, attemptsMade>>

SignInNext ==
  \/ \E ip \in IPs : HomeLoginWrong(ip)
  \/ \E ip \in IPs : HomeLoginRight(ip)
  \/ \E ip \in IPs : ShareAccess(ip)
  \/ \E ip \in IPs, passwordOk, otpOk \in BOOLEAN : AdminLogin(ip, passwordOk, otpOk)
  \/ \E ip \in IPs, passwordOk, otpOk \in BOOLEAN : AdminSetupTotp(ip, passwordOk, otpOk)
  \/ \E ip \in IPs : AdminUnblock(ip)
  \/ \E h \in Hours : Tick(h)

SignInInit == ConvIdle /\ AuxInit

SignInSpec == SignInInit /\ [][SignInNext]_vars

\* ------------------------------------------------------ temp file cleanup
\* the instants at which the clock is read: on and off the 5 minute
\* schedule, around the age of 30 minutes
Minutes == {0, 3, 5, 30, 33, 35, 40}

\* const maxAge = 30 * 60 * 1000, in minutes
maxAge == 30

\* variant: only the upload directory is swept
dirsToClean_UploadsOnly == {"uploads"}

\* const dirsToClean = [UPLOAD_DIR, CONVERTED_DIR]
dirsToClean == {"uploads", "converted"}

\* a request writes a file to UPLOAD_DIR (multer, the intermediates of
\* optimizeAnimatedGif) or to CONVERTED_DIR (the output) under a fresh id
StoreTemp(dir) ==
  /\ issued < MaxTempFiles
  /\ issued' = issued + 1
  /\ tempDir' = tempDir \cup {[dir |-> dir, id |-> issued + 1, mtime |-> minute]}
  /\ UNCHANGED <<convVars, client, authVars, shareVars, fileVars, inflight, disk, foreign,
                 minute, swept>>

\* the handler unlinks a file of its request; a request that fails or
\* crashes before this leaves the file behind
UnlinkTemp(f) ==
  /\ f \in tempDir
  /\ tempDir' = tempDir \ {f}
  /\ UNCHANGED <<convVars, client, authVars, pathVars, shareVars, fileVars, minute, swept>>

\* cleanupTempFiles, on the "*/5 * * * *" schedule: every file of the two
\* directories with now - mtimeMs > maxAge is unlinked
CleanupTempFiles ==
  /\ minute % 5 = 0
  /\ LET old == {f \in tempDir : f.dir \in dirsToClean /\ minute - f.mtime > maxAge}
     IN /\ tempDir' = tempDir \ old
        /\ swept' = swept \cup {f.id : f \in old}
  /\ UNCHANGED <<convVars, client, authVars, pathVars, shareVars, fileVars, minute>>

\* time passes to a later instant
MinutePasses(m) ==
  /\ m > minute
  /\ minute' = m
  /\ UNCHANGED <<convVars, client, authVars, pathVars, shareVars, fileVars, tempDir, swept>>

TempNext ==
  \/ \E dir \in {"uploads", "converted"} : StoreTemp(dir)
  \/ \E f \in tempDir : UnlinkTemp(f)
  \/ CleanupTempFiles
  \/ \E m \in Minutes : MinutePasses(m)

TempInit == ConvIdle /\ AuxInit

\* the cleanup job keeps running and time goes on
TempSpec ==
  /\ TempInit /\ [][TempNext]_vars
  /\ WF_vars(CleanupTempFiles)
  /\ WF_vars(\E m \in Minutes : MinutePasses(m))

\* ------------------------------------------------------------ properties
Range(q) == {q[i] : i \in DOMAIN q}

\* optimizeAnimatedGif has returned
Returned == pc \in {"cleanup", "respond", "done"} /\ result # NoResult
Succeeded == Returned /\ result.kind = "success"

\* C1: whenever optimizeAnimatedGif returns success, the file at the output
\* path is no larger than the request's maxSizeBytes.
C1_SuccessWithinBudget ==
  Succeeded =>
    /\ Exists("output")
    /\ ~options.maxSizeBytes.nan
    /\ File("output").size <= options.maxSizeBytes.v

\* C2: without allowFrameReduction = "true" no frame sampling is performed
\* and a success output has the frame count of the upload; as long as no
\* sampling has run (resize, pad and recolor only), every file of the
\* request has the frame count of the upload.
C2_FramesKeptWithoutApproval ==
  /\ body.allowFrameReduction # "true" =>
       /\ "sample" \notin Range(calls)
       /\ Succeeded => File("output").frames = asset.frames
  /\ "sample" \notin Range(calls) =>
       \A k \in Kinds : Exists(k) => File(k).frames = asset.frames

C2_Witness ==
  /\ pc = "done" /\ response.kind = "success"
  /\ body.allowFrameReduction = "false"
  /\ {"resize", "pad", "recolor"} \subseteq Range(calls)
  /\ File("output").frames = MaxFrames

\* the ladder was gone through to its last level and no level fit the budget
LadderExhausted ==
  /\ Len(tried) = 7
  /\ \A i \in 1..Len(tried) : ~tried[i].fits

\* C3: ladder exhausted, budget unmet, no approval given: the request ends
\* as ApprovalRequired, no frame was dropped, and when the response is sent
\* the output file is gone and no conversion result is saved.
C3_ApprovalLeavesNoArtifact ==
  (pc = "done" /\ LadderExhausted /\ body.allowFrameReduction # "true") =>
    /\ response.kind = "approval"
    /\ "sample" \notin Range(calls)
    /\ ~Exists("output")
    /\ run \notin conversionResults

C3_Witness ==
  /\ pc = "done" /\ response.kind = "approval"
  /\ LadderExhausted
  /\ "pad" \in Range(calls)

\* C4: when the response is sent, the upload and every intermediate file of
\* the request are deleted; an output exists only after a success.
C4_NoIntermediateLeft ==
  pc = "done" =>
    /\ \A k \in Kinds \ {"output"} : ~Exists(k)
    /\ Exists("output") => response.kind = "success"

\* a GIF that already meets the size budget and the dimension bounds
Conforming(a, o) ==
  /\ a.ok
  /\ ~o.maxSizeBytes.nan /\ a.size <= o.maxSizeBytes.v
  /\ a.w >= o.minWidth /\ a.h >= o.minHeight
  /\ o.maxWidth # 0 => a.w <= o.maxWidth
  /\ o.maxHeight # 0 => a.h <= o.maxHeight

\* C5: a conforming GIF comes back as Success, byte for byte, and no codec
\* call other than the metadata probe is made; this holds again when the
\* output is sent through the pipeline once more.
C5_ConformingPassThrough ==
  (Returned /\ body.mime = "image/gif" /\ Conforming(asset, options)) =>
    /\ result.kind = "success"
    /\ File("output") = asset
    /\ Range(calls) \subseteq {"probe"}

C5_Witness ==
  /\ run = 2 /\ pc = "done" /\ response.kind = "success"
  /\ Conforming(asset, options)
  /\ options.maxWidth # 0
  /\ fs[1]["output"] = asset /\ fs[2]["output"] = asset
  /\ asset.gen = 0

\* C6: a success output is at least minWidth wide and minHeight high.
C6_MinimumDimensions ==
  Succeeded =>
    /\ File("output").w >= options.minWidth
    /\ File("output").h >= options.minHeight

C6_Witness ==
  /\ Succeeded
  /\ "pad" \in Range(calls)
  /\ asset.w < options.minWidth /\ asset.h >= options.minHeight
  /\ File("output").w = options.minWidth /\ File("output").h = asset.h

\* C7: a success output is at most maxWidth wide and maxHeight high,
\* whichever of the two is set.
C7_MaximumDimensions ==
  Succeeded =>
    /\ options.maxWidth # 0 => File("output").w <= options.maxWidth
    /\ options.maxHeight # 0 => File("output").h <= options.maxHeight

\* C8: when the first probe of a GIF upload fails, no resize, pad, recolor
\* or frame-sampling call is made and the pipeline returns neither Success
\* nor ApprovalRequired.
C8_ProbeFailureAborts ==
  (body.mime = "image/gif" /\ ~asset.ok) =>
    /\ Range(calls) \subseteq {"probe"}
    /\ result.kind \notin {"success", "approval"}

\* the size limit is malformed or outside 0.1 - 50 MB
BadFileSize(b) ==
  LET n == ParseFloat(StrOr(b.maxFileSize, "2"))
  IN n.nan \/ 10 * n.v < MB \/ n.v > 50 * MB

\* a set maximum is below the corresponding minimum
MaxBelowMin(b) ==
  LET o == optimizeOptionsOf(b)
  IN \/ (o.maxWidth # 0 /\ o.maxWidth < o.minWidth)
     \/ (o.maxHeight # 0 /\ o.maxHeight < o.minHeight)

\* C9: a custom request with a bad size limit, or with a maximum below its
\* minimum, is rejected with an error and no processing call has run.
C9_InvalidRequestRejected ==
  (body.mode = "custom" /\ (BadFileSize(body) \/ MaxBelowMin(body))) =>
    /\ calls = <<>>
    /\ pc = "done" => (response.kind = "error" /\ response.status = 400)

\* C10: the levels are recolored in the order 256, 192, 128, 96, 64, 48, 32
\* and only while the budget is unmet: none when the normalized file fits,
\* and the first level that fits ends the ladder with a success.
C10_LadderFirstFit ==
  /\ \A i \in 1..Len(tried) : tried[i].colors = <<256, 192, 128, 96, 64, 48, 32>>[i]
  /\ \A i \in 1..Len(tried) : tried[i].fits => (i = Len(tried) /\ Succeeded)
  /\ pc = "ladder" => ~SizeLeq(File(workingPath).size, options.maxSizeBytes)
  /\ (Succeeded /\ "recolor" \notin Range(calls)) => tried = <<>>

C10_Witness ==
  /\ Succeeded
  /\ Len(tried) = 3
  /\ tried[3].fits /\ ~tried[1].fits /\ ~tried[2].fits

\* optimizeAnimatedGif has returned the hard stop: the budget is unreachable
BudgetFailure == Returned /\ result.kind = "error" /\ result.reason = "budget"

\* C11: with allowFrameReduction = true and an asset of more than 2 frames,
\* the budget failure is returned only when the output holds a single frame.
C11_BudgetFailureAtOneFrame ==
  (BudgetFailure /\ pc \in {"cleanup", "respond"}
     /\ options.allowFrameReduction /\ asset.frames > 2) =>
    File("output").frames = 1

\* C12: the size reported by the budget failure is the smallest of the
\* encodings the run wrote to the output path.
C12_BestIsSmallest ==
  BudgetFailure => result.best = smallest

\* the stage a codec call belongs to (the probes are read-only and recur)
StageOf(c) ==
  CASE c = "convertToGif"      -> 0
    [] c = "probe"             -> 1
    [] c = "resize"            -> 2
    [] c = "dominantEdgeColor" -> 3
    [] c = "pad"               -> 3
    [] c = "recolor"           -> 4
    [] c = "sample"            -> 5

Transforms == {"resize", "dominantEdgeColor", "pad", "recolor", "sample"}

\* C13: the calls of a request come in the order probe, resize, pad,
\* recolor, sample and no stage is gone back to: every transform follows a
\* probe, no resize or pad follows a recolor, the approval decision is taken
\* with the ladder exhausted and before any sampling, and a sample is only
\* taken after all 7 levels were tried and none fit.
C13_StagesInOrder ==
  /\ LET transforms == SelectSeq(calls, LAMBDA c : c # "probe")
     IN  \A i \in 1..(Len(transforms) - 1) :
           StageOf(transforms[i]) <= StageOf(transforms[i + 1])
  /\ \A j \in DOMAIN calls :
       calls[j] \in Transforms => \E i \in 1..(j - 1) : calls[i] = "probe"
  /\ Cardinality({i \in DOMAIN calls : calls[i] = "resize"}) <= 1
  /\ Cardinality({i \in DOMAIN calls : calls[i] = "pad"}) <= 1
  /\ "sample" \in Range(calls) => (LadderExhausted /\ options.allowFrameReduction)
  /\ (Returned /\ result.kind = "approval") =>
       (LadderExhausted /\ "sample" \notin Range(calls))

C13_Witness ==
  /\ Succeeded
  /\ {"resize", "pad", "recolor", "sample"} \subseteq Range(calls)

\* C14: the version counter counts the saved results only; when the
\* ApprovalRequired response is sent no file of the request exists and no
\* result is saved under its id; the request sent on confirmation starts
\* with nothing of the first one: no file, no call, no level tried, and it
\* probes before it transforms and samples only after its own full ladder.
C14_ApprovalThenFreshRun ==
  /\ conversionVersion = Cardinality(conversionResults)
  /\ (pc = "done" /\ response.kind = "approval") =>
       /\ \A k \in Kinds : ~Exists(k)
       /\ run \notin conversionResults
  /\ origin = "confirm" =>
       /\ body.allowFrameReduction = "true"
       /\ \A k \in Kinds : fs[run - 1][k] = NoFile
       /\ run - 1 \notin conversionResults
       /\ pc = "idle" => (calls = <<>> /\ tried = <<>> /\ \A k \in Kinds : ~Exists(k))
       /\ \A j \in DOMAIN calls :
            calls[j] \in Transforms => \E i \in 1..(j - 1) : calls[i] = "probe"
       /\ "sample" \in Range(calls) => LadderExhausted

C14_Witness ==
  /\ origin = "confirm"
  /\ pc = "done" /\ response.kind = "success"
  /\ "sample" \in Range(calls)
  /\ conversionVersion = 1

\* GET /api/converted/:filename for the output id of request id: the name
\* must end in ".gif" and be a UUID without its first ".gif"; the file is
\* sent when it exists
Filenames == [id : Runs, suffix : {".gif", ".gif.temp.gif", ".png"}]

getConverted(name) ==
  IF name.suffix = ".png" THEN [status |-> 400, file |-> NoFile]
  ELSE IF name.suffix # ".gif" THEN [status |-> 400, file |-> NoFile]
  ELSE IF fs[name.id]["output"] = NoFile THEN [status |-> 404, file |-> NoFile]
  ELSE [status |-> 200, file |-> fs[name.id]["output"]]

\* C16: a download is answered with a file only when that file is the
\* output of a conversion that ended in success.
C16_OnlyFinalOutputServed ==
  \A name \in Filenames :
    getConverted(name).status = 200 =>
      (name.id \in conversionResults \/ (name.id = run /\ Succeeded))

\* C17: after a click on Proceed exactly one request with
\* allowFrameReduction = true is on its way and the result is not the
\* cancellation failure; after a cancel the result is the cancellation
\* failure and no request is on its way; requests with allowFrameReduction =
\* true are no more than the approval dialogs raised.
C17_DialogExitsExclusive ==
  /\ client.lastEvent = "proceed" =>
       /\ client.mutation = "pending"
       /\ client.sent[Len(client.sent)]
       /\ client.result # "cancelled"
  /\ client.lastEvent \in {"cancel", "dismiss"} =>
       /\ client.mutation # "pending"
       /\ client.result = "cancelled"
  /\ Cardinality({i \in DOMAIN client.sent : client.sent[i]}) <= client.approvals

\* the failed attempts an IP has made so far
FailedBy(ip) == attemptsMade.failed[ip]

\* C18: an IP with a block has made at least 5 failed attempts, and a block
\* lasts 48 hours from the moment it was set.
C18_BlockedAtFiveFailures ==
  \A b \in blockedIps :
    /\ FailedBy(b.ip) >= 5
    /\ b.expiresAt = b.blockedAt + 48

\* the tool endpoints, and the endpoints meant to be open
ToolEndpoints == {"image/metadata", "convert", "files/upload", "files", "files/:id"}

OpenEndpoints == {"health", "home/session", "files/info/:fileId",
                  "files/download/:filename", "temp-drive/share/validate/:token"}

\* C19: without a valid home authentication every tool endpoint answers
\* 401, and whatever does not answer 401 is a health, home, share link or
\* download endpoint.
C19_ToolEndpointsGated ==
  ~homeAuthenticated =>
    \A e \in Endpoints, token \in Tokens :
      /\ e.name \in ToolEndpoints => respond(e, token) = 401
      /\ respond(e, token) # 401 => e.name \in OpenEndpoints

\* C20: a request that carries the token of a valid share session is
\* served by the share's list, upload and download routes, home
\* authentication or not.
C20_ShareSessionSuffices ==
  \A s \in tdSessions :
    (s.type = "share" /\ validSession(s.token)) =>
      \A e \in Endpoints :
        e.name \in TempDriveEndpoints => respond(e, s.token) = 200

\* every path a request in flight has named so far
PathsOf(p) ==
  LET r == inflight[p]
  IN ({r.upload, r.input, r.working, r.output} \cup r.tempFiles
        \cup (IF r.output # <<>> THEN {r.output \o <<".temp.gif">>} ELSE {})) \ {<<>>}

\* C15: two requests never name the same path, and no request has read,
\* written or unlinked a path that another request holds.
C15_NoSharedPath ==
  /\ ~foreign
  /\ \A p, q \in Requests : p # q => PathsOf(p) \cap PathsOf(q) = {}

C15_Witness ==
  /\ \A p \in Requests : inflight[p].pc = "encoded" /\ Cardinality(inflight[p].tempFiles) = 2
  /\ inflight[1].upload[3] = "a.gif" /\ inflight[2].upload[3] = "a.gif"
  /\ Len(inflight[1].upload) = 3 /\ Len(inflight[2].upload) = 4

\* E = Math.ceil((1 - m / s) * 100) for integers m, s > 0, without division
IsCeilPercent(E, m, s) == (E - 1) * s < 100 * (s - m) /\ 100 * (s - m) <= E * s

\* C23: the estimate of an ApprovalRequired result is the integer
\* ceil((1 - maxSizeBytes / sizeBytes) * 100) for the size of the 32-color
\* encoding, which is the file at the output path, and lies in 1..100.
C23_EstimateInRange ==
  (Returned /\ result.kind = "approval" /\ pc = "cleanup") =>
    /\ LadderExhausted /\ tried[7].colors = 32
    /\ ~result.estimate.nan /\ ~options.maxSizeBytes.nan
    /\ result.estimate.v \in 1..100
    /\ IsCeilPercent(result.estimate.v, options.maxSizeBytes.v, File("output").size)

\* the resize command was run and threw: info was not probed again and still
\* exceeds a set maximum
ResizeFailed == "resize" \in Range(calls) /\ NeedsResize

\* ensureMinimumDimensions reported failure
PadFailed == result # NoResult /\ result.kind = "error" /\ result.reason = "dimension"

\* C24: once the resize call or the padding call has failed, no further
\* codec call is made for the request and optimizeAnimatedGif returns an
\* error, never success and never the approval request.
C24_NormalizationFailureStops ==
  /\ ResizeFailed => calls[Len(calls)] = "resize"
  /\ PadFailed => calls[Len(calls)] = "pad"
  /\ (ResizeFailed \/ PadFailed) => (Returned => result.kind = "error")

\* C25: with the approval given, an asset of 2 frames or fewer and a
\* 32-color encoding over the budget, no frame-sampling call is made, the
\* last codec call of the request is the 32-color recolor, and
\* optimizeAnimatedGif returns the budget failure with the size of that
\* encoding.
C25_FewFramesFailAtOnce ==
  (options.allowFrameReduction /\ asset.frames <= 2 /\ LadderExhausted
     /\ SizeGt(resultSize, options.maxSizeBytes)) =>
    /\ "sample" \notin Range(calls)
    /\ calls[Len(calls)] = "recolor"
    /\ currentFrames = 0
    /\ Returned =>
         /\ BudgetFailure
         /\ result.best = resultSize
         /\ Exists("output") => File("output").size = result.best

C25_Witness ==
  /\ BudgetFailure /\ pc = "cleanup"
  /\ options.allowFrameReduction /\ asset.frames = 2
  /\ LadderExhausted /\ File("output").frames = 2

\* the frame-sampling calls made so far
NumSamples == Cardinality({i \in DOMAIN calls : calls[i] = "sample"})

\* floor(0.85 * n), taken k times over
RECURSIVE KeptAfter(_, _)
KeptAfter(n, k) == IF k = 0 THEN n ELSE KeptAfter(framesToKeep(n), k - 1)

\* C26: every pass over n frames leaves floor(0.85 * n) frames: after k
\* passes the output holds the upload's frame count reduced k times over.
C26_PassKeepsFramesToKeep ==
  (pc \in {"loop", "final"} /\ Exists("output")) =>
    File("output").frames = KeptAfter(asset.frames, NumSamples)

\* C27: at the start of a pass the loop's frame count is the frame count
\* of the file at the output path, and every index the pass selects is the
\* index of a frame of that file.
C27_LoopCountIsActual ==
  pc = "loop" =>
    /\ currentFrames = File("output").frames
    /\ (LoopCondition /\ framesToKeep(currentFrames) < currentFrames) =>
         \A i \in frameSelector(currentFrames) : i < File("output").frames

\* the most codec calls a request over an asset of n frames can make:
\* convertToGif, 5 probes, resize, dominantEdgeColor, pad, 7 recolors and
\* fewer than n frame passes
MaxCalls(n) == 16 + (n - 1)

Downscaled(a, o) ==
  IF (o.maxWidth # 0 /\ a.w > o.maxWidth) \/ (o.maxHeight # 0 /\ a.h > o.maxHeight)
    THEN ResizedDims(a.w, a.h, o.maxWidth, o.maxHeight)
    ELSE [w |-> a.w, h |-> a.h]

\* C29: a success output is max(w', minWidth) wide and max(h', minHeight)
\* high, (w', h') being the upload's dimensions after the downscale to the
\* set maxima, or the upload's own dimensions when no maximum is exceeded.
C29_OutputDimensions ==
  Succeeded =>
    /\ File("output").w = Max(Downscaled(asset, options).w, options.minWidth)
    /\ File("output").h = Max(Downscaled(asset, options).h, options.minHeight)

\* the position of the last successful login of an IP in the log (0: none)
LastSuccess(ip) ==
  LET S == {i \in DOMAIN loginAttempts :
              loginAttempts[i].ip = ip /\ loginAttempts[i].success}
  IN IF S = {} THEN 0 ELSE CHOOSE i \in S : \A j \in S : j <= i

\* the failed attempts of an IP since its last successful login
FailuresSinceSuccess(ip) ==
  Cardinality({i \in DOMAIN loginAttempts :
                 /\ i > LastSuccess(ip)
                 /\ loginAttempts[i].ip = ip /\ ~loginAttempts[i].success})

\* C30: failures from before a successful login do not count: an IP that
\* has just been blocked has failed MAX_LOGIN_ATTEMPTS times since its last
\* successful login.
C30_SuccessClearsFailures ==
  \A b \in blockedIps :
    b.blockedAt = now => FailuresSinceSuccess(b.ip) >= MAX_LOGIN_ATTEMPTS

\* the bytes of a set of share files
RECURSIVE TotalSize(_)
TotalSize(F) ==
  IF F = {} THEN 0
  ELSE LET f == CHOOSE x \in F : TRUE IN f.fileSize + TotalSize(F \ {f})

\* no upload or delete handler is in flight
Quiescent == \A j \in Jobs : jobs[j].pc = "rest"

Recorded(id) == \E f \in uploadedFiles : f.id = id

\* C22 as stated: a shared file expires between 0.1 and 24 hours after its
\* upload; once expired it is not listed, and info and download answer 410,
\* cleanup run or not.
C22_ExpiredAnswers410 ==
  \A u \in uploads :
    /\ u.expiresAt - u.createdAt \in 10..2400
    /\ u.expiresAt <= clock =>
         /\ u.id \notin getFiles
         /\ getFileInfo(u.id) = 410
         /\ downloadFile(u.id) = 410

\* C22 as amended: once expired a file is not listed, and info and
\* download answer 410 while its record exists and 404 once the cleanup job
\* has removed it; they never serve it.
C22_ExpiredNeverServed ==
  \A u \in uploads :
    /\ u.expiresAt - u.createdAt \in 10..2400
    /\ u.expiresAt <= clock =>
         /\ u.id \notin getFiles
         /\ getFileInfo(u.id) = IF Recorded(u.id) THEN 410 ELSE 404
         /\ downloadFile(u.id) = IF Recorded(u.id) THEN 410 ELSE 404

C22_Witness ==
  /\ clock = 2400
  /\ \E u \in uploads :
       u.asked = "25" /\ u.expiresAt = 2400 /\ Recorded(u.id) /\ getFileInfo(u.id) = 410
  /\ \E u \in uploads :
       u.asked = "0.1" /\ u.expiresAt = 10 /\ ~Recorded(u.id) /\ downloadFile(u.id) = 404

\* a request to one of the four sign-in endpoints from this IP
SignInRequest(ip) ==
  \/ HomeLoginWrong(ip) \/ HomeLoginRight(ip) \/ ShareAccess(ip)
  \/ \E passwordOk, otpOk \in BOOLEAN :
       AdminLogin(ip, passwordOk, otpOk) \/ AdminSetupTotp(ip, passwordOk, otpOk)

\* the step saves a Temp Drive session or authenticates the home session
SessionIssued ==
  \/ tdSessions' \ tdSessions # {}
  \/ session' # session /\ session'.homeAuthenticated

\* C31: a request to a sign-in endpoint (home login, admin login, TOTP
\* setup, share access) from an IP that is blocked when the request arrives
\* is never answered with a session or a session token.
C31_BlockedIpGetsNoSession ==
  [][\A ip \in IPs : (isIpBlocked(ip) /\ SignInRequest(ip)) => ~SessionIssued]_vars

\* the token is that of a share session whose share is deleted, inactive
\* or expired, or sharing is disabled, or the session itself has expired
StaleShareSession(token) ==
  \E s \in tdSessions :
    /\ s.token = token
    /\ s.type = "share"
    /\ \/ ~drive.exists \/ ~drive.active \/ isShareExpired(drive.expiresAt)
       \/ ~drive.sharingEnabled
       \/ s.expiresAt <= now

\* C32: a request to a Temp Drive file route that carries the token of a
\* share session whose share is deleted, inactive or expired, or with
\* sharing disabled, or whose session has expired, is answered 401 and the
\* session is gone from the store afterwards.
C32_StaleSessionRejectedAndRemoved ==
  [][\A e \in Endpoints, token \in Tokens :
       (StaleShareSession(token) /\ TempDriveRequest(e, token)) =>
         /\ reply'.status = 401
         /\ \A s \in tdSessions' : s.token # token]_vars

\* every file the upload and converted directories can hold
TempFiles == [dir : {"uploads", "converted"}, id : 1..MaxTempFiles, mtime : Minutes]

\* C33: with the cleanup job running and time going on, a file of the
\* upload or the converted directory that is older than 30 minutes is
\* eventually gone, whether or not its request unlinked it.
C33_OldTempFilesEventuallyDeleted ==
  \A f \in TempFiles :
    (f \in tempDir /\ minute - f.mtime > maxAge) ~> (f \notin tempDir)

\* the cleanup has unlinked every file that was written, none of which a
\* handler had taken away
C33_Witness ==
  /\ Cardinality(swept) = MaxTempFiles
  /\ tempDir = {}
  /\ minute > maxAge

\* C34: once the expiry cleanup has processed an expired shared file (its
\* record is gone), no file of its id is left in the shared directory,
\* whatever its original name was.
C34_ExpiredFileRemovedCompletely ==
  \A u \in uploads :
    (u.expiresAt <= clock /\ ~Recorded(u.id)) => \A p \in sharedDir : p[1] # u.id

\* C35: a request resubmitted with allowFrameReduction = "true" after an
\* ApprovalRequired answer, whose ladder again ends over the budget, does
\* not return before at least one frame-reduction pass was made.
C35_ApprovalMeansFramesCanBeDropped ==
  (origin = "confirm" /\ Returned /\ LadderExhausted) => "sample" \in Range(calls)

====
